---- MODULE Spec2Model ----
(***************************************************************************)
(* py2C: the generic register-access engine of I2c_device (src/py2C.py).   *)
(* Device handles, the class-level configuration store, the register       *)
(* tables of three device types and the bus transactions the engine        *)
(* issues against a transport double that keeps register contents.         *)
(***************************************************************************)
EXTENDS Integers, Sequences, FiniteSets, TLC

VARIABLES
    devs,        \* the device handles created so far, in creation order
    cls_config,  \* I2c_device._config, the dictionary defined on the class
    mem,         \* transport double: register contents per bus address
    touched,     \* history: per handle, the names read or written through it
    known,       \* history: per handle, the value last read or written per name
    cls_data_reg, \* per type, the class attribute _data_reg: name -> (ctrl, nbytes)
    calls,       \* per concurrent caller, the engine call it is executing
    buslog,      \* transport double: the transactions issued, in bus order
    sampled,     \* history: per handle, its cycle as built and the elements
                 \* its successful samples selected
    pc,          \* the caller: "idle" between calls, "returned" after a call
    last,        \* the call that just returned: arguments, result, bus log
    pre,         \* the state the call that just returned started in
    nops         \* number of engine calls made so far

vars == <<devs, cls_config, mem, touched, known, cls_data_reg, calls, buslog,
          sampled, pc, last, pre, nops>>

\* the state of the concurrent callers and of the transaction record
bus_vars == <<calls, buslog>>

-----------------------------------------------------------------------------
(* Bounds of the model *)

\* requested field values range over -1..MaxVal
MaxVal == 2
\* most (name, value) pairs in one config call
MaxKw == 2
\* most names in one get_config call
MaxNames == 2
\* most engine calls (get_config, config) in one behaviour
MaxOps == 2
\* most device handles in one behaviour of SpecHandles
MaxHandles == 2
\* concurrent callers of SpecRace
MaxCallers == 2
\* most transactions the transport fails or answers with a wrong length
MaxFaults == 1
\* longest cycle list of a facade handle
MaxCycle == 2
\* most facade samples of a run
MaxSamples == 3
\* widest number whose bit windows are set and extracted
MaxBits == 16
\* longest byte sequence assembled and split
MaxBytes == 3

-----------------------------------------------------------------------------
(* Miscellaneous bit and byte manipulation *)

RECURSIVE bit_and(_, _)
\* Python's & on non-negative integers
bit_and(a, b) ==
    IF a = 0 \/ b = 0 THEN 0
    ELSE (a % 2) * (b % 2) + 2 * bit_and(a \div 2, b \div 2)

\* Python's << and >> on non-negative integers
shl(x, n) == x * (2 ^ n)
shr(x, n) == x \div (2 ^ n)

\* the mask applied to the unshifted number
bit_grab_unshifted(num, start, nbits) == bit_and((2 ^ nbits) - 1, num)

bit_grab(num, start, nbits) == bit_and((2 ^ nbits) - 1, shr(num, start))

\* the value added without clearing the window first
bit_set_uncleared(num, start, nbits, value) == num + shl(value, start)

bit_set(num, start, nbits, value) ==
    num + shl(value, start) - bit_and(num, shl((2 ^ nbits) - 1, start))

RECURSIVE bit_and_not(_, _)
\* Python's a & ~b on non-negative integers
bit_and_not(a, b) ==
    IF a = 0 THEN 0
    ELSE (a % 2) * (1 - (b % 2)) + 2 * bit_and_not(a \div 2, b \div 2)

\* the bits below the sign bit alone
twoscompl2int_magnitude(num, n) == bit_and(num, (2 ^ (n - 1)) - 1)

twoscompl2int(num, n) ==
    bit_and(num, (2 ^ (n - 1)) - 1) - bit_and_not(num, (2 ^ (n - 1)) - 1)

RECURSIVE bytes2int_loop(_, _, _)
bytes2int_loop(out, byte_array, i) ==
    IF i > Len(byte_array) THEN out
    ELSE bytes2int_loop(shl(out, 8) + byte_array[i], byte_array, i + 1)

\* byte_array[0] is the most significant byte (a non-empty array)
bytes2int(byte_array) == bytes2int_loop(byte_array[1], byte_array, 2)

int2bytes(value, nbytes) ==
    [i \in 1..nbytes |->
        shr(bit_and(value, shl(255, (nbytes - i) * 8)), (nbytes - i) * 8)]

-----------------------------------------------------------------------------
(* Device types: valid addresses and configuration registers.              *)
(* An entry of conf_reg is the tuple                                       *)
(*   (register-address, start-bit, nbits, info, value-representation)      *)
(* beside the entry 'nbytes'.  Of each type's table the model keeps the    *)
(* rows listed here; decode tables are kept as the text of their entries.  *)

Types == {"ADS1115", "LSM9DS1_MAG", "LSM9DS1_ACC"}

\* _conf_reg = {} of I2c_device, inherited by the types that define none
EmptyTable == [x \in {} |-> <<>>]

valid_addr(t) ==
    CASE t = "ADS1115"     -> {72, 73, 74, 75}     \* 0x48..0x4b
      [] t = "LSM9DS1_MAG" -> {28, 30}             \* 0x1c, 0x1e
      [] t = "LSM9DS1_ACC" -> {106, 107}           \* 0x6a, 0x6b
      [] t = "ADS1113"     -> {72, 73, 74, 75}     \* 0x48..0x4b
      [] t = "TCA9548A"    -> 112..119             \* 0x70..0x77
      [] t = "DAC8574"     -> {76, 77, 78, 79}     \* 0x4c..0x4f
      [] t = "TCA9545A"    -> 112..115             \* 0x70..0x73
      [] t = "HIH8121"     -> {39}                 \* 0x27

conf_reg(t) ==
    CASE t = "ADS1115" ->
             ("nbytes" :> 2)
          @@ ("MODE" :> <<1, 8, 1, "Conversion mode", <<"CONT", "SNGL">> >>)
          @@ ("DR" :> <<1, 5, 3, "Data rate",
                        <<"8", "16", "32", "64", "128", "250", "475", "860">> >>)
      [] t = "LSM9DS1_MAG" ->
             ("nbytes" :> 1)
          @@ ("TEMP_COMP" :> <<32, 7, 1, "Temperature compensation", <<"0", "1">> >>)
          @@ ("XDA" :> <<39, 0, 1, "X data available">>)
      [] t = "LSM9DS1_ACC" ->
             ("nbytes" :> 1)
          @@ ("TEMP_COMP" :> <<32, 7, 1, "Temperature compensation", <<"0", "1">> >>)
          @@ ("ODR_XL" :> <<32, 5, 3, "Accelerometer output rate",
                            <<"0", "1", "2", "3", "4", "5", "6", "7">> >>)
          @@ ("FS_G" :> <<16, 3, 2, "Gyro fullscale", <<"0", "1", "2", "3">> >>)
      [] t = "ADS1113" ->
             ("nbytes" :> 2)
          @@ ("MODE" :> <<1, 8, 1, "Conversion mode", <<"CONT", "SNGL">> >>)
          @@ ("DR" :> <<1, 5, 3, "Data rate",
                        <<"8", "16", "32", "64", "128", "250", "475", "860">> >>)
      [] t \in {"TCA9548A", "DAC8574", "TCA9545A", "HIH8121"} -> EmptyTable

\* type(self._conf_reg[kw]) is tuple: every entry but 'nbytes'
is_tuple(t, kw) == kw # "nbytes"

FieldNames(t) == {kw \in DOMAIN conf_reg(t) : is_tuple(t, kw)}

\* the fields of a tuple entry (Python indices 0, 1, 2)
reg_of(t, kw) == conf_reg(t)[kw][1]
start_of(t, kw) == conf_reg(t)[kw][2]
nbits_of(t, kw) == conf_reg(t)[kw][3]

-----------------------------------------------------------------------------
(* Data registers: _data_reg of a type maps a register name to the tuple   *)
(* (register pointer, number of bytes).                                    *)

DataTypes == {"ADS1115", "ADS1113", "TCA9548A", "DAC8574"}

\* _data_reg as each class body defines it
data_reg(t) ==
    CASE t = "ADS1115" ->
             ("CONV" :> <<0, 2>>) @@ ("LOTH" :> <<16, 2>>) @@ ("HITH" :> <<17, 2>>)
      [] t = "ADS1113" -> ("CONV" :> <<0, 2>>)
      [] t = "TCA9548A" -> EmptyTable
      [] t = "DAC8574" ->
             ("TRA" :> <<0, 2>>) @@ ("TRB" :> <<2, 2>>)
          @@ ("TRC" :> <<4, 2>>) @@ ("TRD" :> <<6, 2>>)

-----------------------------------------------------------------------------
(* Transport double: a register file per bus address.  A block read of n   *)
(* bytes returns the n low bytes of the addressed register, most           *)
(* significant first; a block write stores the bytes written.              *)

\* _default['addr'] of each type
default_addr(t) ==
    CASE t = "ADS1115"     -> 72       \* 0x48
      [] t = "LSM9DS1_MAG" -> 30       \* 0x1e
      [] t = "LSM9DS1_ACC" -> 107      \* 0x6b
      [] t = "ADS1113"     -> 72       \* 0x48
      [] t = "TCA9548A"    -> 112      \* 0x70
      [] t = "DAC8574"     -> 76       \* 0x4c
      [] t = "TCA9545A"    -> 112      \* 0x70
      [] t = "HIH8121"     -> 39       \* 0x27

\* the addresses a caller passes for a device of type t: the type's default
\* and 0x00, the default of the generic I2c_device
AddrsFor(t) == {default_addr(t), 0}

Addrs == UNION {AddrsFor(t) : t \in Types}

RegAddrs == UNION {{reg_of(t, kw) : kw \in FieldNames(t)} : t \in Types}

InitContents == {0, 42405}      \* 0x0000, 0xA5A5

bus_read_block(m, addr, ctrl, n) ==
    [i \in 1..n |-> (m[addr][ctrl] \div (256 ^ (n - i))) % 256]

RECURSIVE bus_value(_, _)
bus_value(data, i) ==
    IF i = 0 THEN 0 ELSE data[i] + 256 * bus_value(data, i - 1)

bus_write_block(m, addr, ctrl, data) ==
    [m EXCEPT ![addr][ctrl] = bus_value(data, Len(data))]

ReadEntry(addr, ctrl, n) ==
    [op |-> "read_i2c_block_data", addr |-> addr, ctrl |-> ctrl,
     nbytes |-> n, data |-> <<>>]

WriteEntry(addr, ctrl, data) ==
    [op |-> "write_i2c_block_data", addr |-> addr, ctrl |-> ctrl,
     nbytes |-> Len(data), data |-> data]

-----------------------------------------------------------------------------
(* Values of a configuration store: None, or a stored value v kept as <<v>> *)

None == <<>>
EmptyMap == [x \in {} |-> 0]
Range(s) == {s[i] : i \in 1..Len(s)}

\* what self._config names on a handle: the instance attribute once one has
\* been assigned, the class attribute I2c_device._config before that
self_config(d, cls) == IF d.own THEN d.config ELSE cls

\* for kw in out: self._config[kw] = out[kw]
store(cfg, out) ==
    [k \in DOMAIN cfg \cup DOMAIN out |->
        IF k \in DOMAIN out THEN <<out[k]>> ELSE cfg[k]]

-----------------------------------------------------------------------------
(* I2c_device.read and I2c_device.write, as the engine calls them: with a  *)
(* register pointer ctrl, and a list of bytes as data                      *)

read(m, d, ctrl, nbytes) == bus_read_block(m, d.addr, ctrl, nbytes)

write(m, d, data, ctrl) == bus_write_block(m, d.addr, ctrl, data)

-----------------------------------------------------------------------------
(* I2c_device.get_config(read, *args) *)

RECURSIVE get_stored(_, _, _, _)
\* read=False: the stored configuration, entry by entry
get_stored(cfg, args, i, out) ==
    IF i > Len(args) THEN [err |-> "none", out |-> out]
    ELSE IF args[i] \notin DOMAIN cfg THEN [err |-> "KeyError", out |-> EmptyMap]
    ELSE IF cfg[args[i]] = None THEN [err |-> "AssertionError", out |-> EmptyMap]
    ELSE get_stored(cfg, args, i + 1, (args[i] :> cfg[args[i]][1]) @@ out)

RECURSIVE check_args(_, _, _)
\* regs = {self._conf_reg[kw][0] for kw in args}: the lookups that can fail
check_args(t, args, i) ==
    IF i > Len(args) THEN "none"
    ELSE IF args[i] \notin DOMAIN conf_reg(t) THEN "KeyError"
    ELSE IF ~is_tuple(t, args[i]) THEN "TypeError"
    ELSE check_args(t, args, i + 1)

regs_first_only(t, kws) ==
    IF kws = {} THEN {}
    ELSE LET all == {reg_of(t, kw) : kw \in kws}
         IN {CHOOSE r \in all : \A q \in all : r <= q}

\* the distinct register pointers of the entries kws
regs_of(t, kws) == {reg_of(t, kw) : kw \in kws}

fields_of_register(t, kws, r) == {kw \in FieldNames(t) : reg_of(t, kw) = r}

\* the entries of kws that get_config grabs from register r
fields_in(t, kws, r) == {kw \in kws : reg_of(t, kw) = r}

\* the order in which Python iterates the set regs is not fixed by the code
Orders(S) ==
    {s \in [1..Cardinality(S) -> S] : \A i, j \in DOMAIN s : i # j => s[i] # s[j]}

\* for r in regs: read the register, grab the entries of kws found in it
read_config(m, d, kws, order) ==
    LET t == d.dev_type
        n == conf_reg(t)["nbytes"]
        ans(r) == read(m, d, r, n)
        got == UNION {fields_in(t, kws, order[i]) : i \in DOMAIN order}
        short == \E i \in DOMAIN order : Len(ans(order[i])) # n
    IN  IF short
        THEN [err |-> "AssertionError", out |-> EmptyMap,
              log |-> [i \in DOMAIN order |-> ReadEntry(d.addr, order[i], n)]]
        ELSE [err |-> "none",
              out |-> [kw \in got |->
                          bit_grab(bytes2int(ans(reg_of(t, kw))),
                                   start_of(t, kw), nbits_of(t, kw))],
              log |-> [i \in DOMAIN order |-> ReadEntry(d.addr, order[i], n)]]

\* the registers a forced get_config of args reads
wanted(t, args) == IF Len(args) = 0 THEN FieldNames(t) ELSE Range(args)

\* the whole method; cfg is the new content of the dictionary self._config
get_config(m, d, cls, rd, args, order) ==
    LET t == d.dev_type
        cfg == self_config(d, cls)
    IN  IF ~rd
        THEN LET r == get_stored(cfg, args, 1, EmptyMap)
             IN [err |-> r.err, out |-> r.out, log |-> <<>>, cfg |-> cfg]
        ELSE IF check_args(t, args, 1) # "none"
        THEN [err |-> check_args(t, args, 1), out |-> EmptyMap,
              log |-> <<>>, cfg |-> cfg]
        ELSE LET r == read_config(m, d, wanted(t, args), order)
             IN [err |-> r.err, out |-> r.out, log |-> r.log,
                 cfg |-> IF r.err = "none" THEN store(cfg, r.out) ELSE cfg]

\* the register orders a forced get_config of args may read in
read_orders(t, rd, args) ==
    IF rd /\ check_args(t, args, 1) = "none"
    THEN Orders(regs_of(t, wanted(t, args)))
    ELSE {<<>>}

-----------------------------------------------------------------------------
(* I2c_device.config: kwargs is the sequence of the keyword                *)
(* arguments, each a record [kw, v], in the order they were passed         *)

value_any(v, nbits) == TRUE

\* 0 <= kwargs[kw] < 2**self._conf_reg[kw][2]
value_in_range(v, nbits) == 0 <= v /\ v < 2 ^ nbits

RECURSIVE check_inputs(_, _, _, _)
\* check inputs, collect all registers that need to be updated
check_inputs(t, kwargs, i, regs) ==
    IF i > Len(kwargs) THEN [err |-> "none", regs |-> regs]
    ELSE LET kw == kwargs[i].kw
         IN  IF kw \notin DOMAIN conf_reg(t)
             THEN [err |-> "AssertionError", regs |-> regs]
             ELSE IF ~is_tuple(t, kw)
             THEN [err |-> "TypeError", regs |-> regs]
             ELSE IF ~value_in_range(kwargs[i].v, nbits_of(t, kw))
             THEN [err |-> "AssertionError", regs |-> regs]
             ELSE check_inputs(t, kwargs, i + 1,
                               IF reg_of(t, kw) \in Range(regs) THEN regs
                               ELSE Append(regs, reg_of(t, kw)))

RECURSIVE set_bits(_, _, _, _, _)
\* for kw in kwargs: if the entry lives in register r, val = bit_set(val, ...)
set_bits(t, kwargs, r, val, i) ==
    IF i > Len(kwargs) THEN val
    ELSE set_bits(t, kwargs, r,
                  IF reg_of(t, kwargs[i].kw) = r
                  THEN bit_set(val, start_of(t, kwargs[i].kw),
                               nbits_of(t, kwargs[i].kw), kwargs[i].v)
                  ELSE val,
                  i + 1)

RECURSIVE write_regs(_, _, _, _, _, _)
\* cycle through registers, set bits, overwrite register content
write_regs(m, d, kwargs, regs, i, log) ==
    IF i > Len(regs) THEN [mem |-> m, log |-> log]
    ELSE LET t == d.dev_type
             n == conf_reg(t)["nbytes"]
             ans == read(m, d, regs[i], n)
             val == set_bits(t, kwargs, regs[i], bytes2int(ans), 1)
             data == int2bytes(val, n)
         IN  write_regs(write(m, d, data, regs[i]), d, kwargs, regs, i + 1,
                        log \o <<ReadEntry(d.addr, regs[i], n),
                                 WriteEntry(d.addr, regs[i], data)>>)

written_and_siblings(t, kwargs) ==
    [kw \in {k \in FieldNames(t) :
                \E i \in DOMAIN kwargs : reg_of(t, kwargs[i].kw) = reg_of(t, k)} |->
        IF \E i \in DOMAIN kwargs : kwargs[i].kw = kw
        THEN (CHOOSE x \in Range(kwargs) : x.kw = kw).v
        ELSE 0]

\* finally update stored configuration dictionary: kw -> kwargs[kw]
written(t, kwargs) == [kw \in {kwargs[i].kw : i \in DOMAIN kwargs} |->
                          (CHOOSE x \in Range(kwargs) : x.kw = kw).v]

\* the whole method; without arguments it is get_config()
config(m, d, cls, kwargs, order) ==
    LET t == d.dev_type
        cfg == self_config(d, cls)
        chk == check_inputs(t, kwargs, 1, <<>>)
    IN  IF Len(kwargs) = 0
        THEN LET r == get_config(m, d, cls, TRUE, <<>>, order)
             IN [err |-> r.err, out |-> r.out, log |-> r.log, mem |-> m,
                 cfg |-> r.cfg]
        ELSE IF chk.err # "none"
        THEN [err |-> chk.err, out |-> EmptyMap, log |-> <<>>, mem |-> m,
              cfg |-> cfg]
        ELSE LET w == write_regs(m, d, kwargs, chk.regs, 1, <<>>)
             IN [err |-> "none", out |-> EmptyMap, log |-> w.log, mem |-> w.mem,
                 cfg |-> store(cfg, written(t, kwargs))]

-----------------------------------------------------------------------------
(* I2c_device.__init__(read_config, addr=...) *)

\* for kw in self._conf_reg: self._config[kw] = None
clear(cfg, t) ==
    [k \in DOMAIN cfg \cup DOMAIN conf_reg(t) |->
        IF k \in DOMAIN conf_reg(t) THEN None ELSE cfg[k]]

\* the class attributes _bus = None and _addr = None: no bus handle and no
\* address, a number that no bus handle and no address equals
Unset == -1

\* the default bus handle smbus.SMBus(1)
DefaultBus == 1

\* a false value: None or 0
unset_or_zero(v) == v = Unset \/ v = 0

\* self._addr == None, self._bus == None
unset(v) == v = Unset

\* the setter of the property addr
addr_setter(d, value) ==
    IF unset(d.addr) THEN [err |-> "none", d |-> [d EXCEPT !.addr = value]]
    ELSE [err |-> "AttributeError", d |-> d]

\* the setter of the property bus
bus_setter(d, value) ==
    IF unset(d.bus) THEN [err |-> "none", d |-> [d EXCEPT !.bus = value]]
    ELSE [err |-> "AttributeError", d |-> d]

\* a fresh instance: every attribute is still the class attribute
blank(t) ==
    [dev_type |-> t, addr |-> Unset, bus |-> Unset, own |-> FALSE,
     config |-> EmptyMap]

\* the handle under construction, before self._config is assigned: addr from
\* the keyword argument and bus from _default, set through the setters
new_device(t, addr) == bus_setter(addr_setter(blank(t), addr).d, DefaultBus).d

-----------------------------------------------------------------------------
(* The calls a caller can make, and what it passes *)

Values == (-1)..MaxVal

\* a name that is no entry of the type's conf_reg
ForeignName(t) == IF t = "ADS1115" THEN "TEMP_COMP" ELSE "MODE"

\* the names tried on a handle of type t: its fields, 'nbytes', a foreign one
NamesFor(t) == DOMAIN conf_reg(t) \cup {ForeignName(t)}

NameSeqs(t, n) == UNION {[1..k -> NamesFor(t)] : k \in 0..n}

KwSeqs(t, n) ==
    {s \in UNION {[1..k -> [kw : NamesFor(t), v : Values]] : k \in 0..n} :
        \A i, j \in DOMAIN s : i # j => s[i].kw # s[j].kw}

NoCall == [op |-> "none", h |-> 0, rd |-> FALSE, names |-> <<>>, kwargs |-> <<>>,
           err |-> "none", out |-> EmptyMap, log |-> <<>>]

NoPre == [devs |-> <<>>, cls_config |-> EmptyMap, mem |-> EmptyMap,
          touched |-> <<>>, known |-> <<>>, cls_data_reg |-> EmptyMap]

Snapshot == [devs |-> devs, cls_config |-> cls_config, mem |-> mem,
             touched |-> touched, known |-> known, cls_data_reg |-> cls_data_reg]

\* the values a config call with these keyword arguments passes, by name
written_values(kwargs) ==
    [k \in {kwargs[i].kw : i \in DOMAIN kwargs} |->
        (CHOOSE p \in Range(kwargs) : p.kw = k).v]

\* the history of values after the values vals were read or written
learn(kn, vals) ==
    [k \in DOMAIN kn \cup DOMAIN vals |->
        IF k \in DOMAIN vals THEN vals[k] ELSE kn[k]]

\* dev = Type(read_config=rc, addr=addr)
Create(t, addr, rc) ==
    /\ pc = "idle"
    /\ \E order \in Orders(regs_of(t, FieldNames(t))) :
          LET d0 == new_device(t, addr)
              r == get_config(mem, d0, cls_config, TRUE, <<>>, order)
              d == IF rc
                   THEN [d0 EXCEPT !.own = TRUE, !.config = store(EmptyMap, r.out)]
                   ELSE d0
          IN  /\ (~rc) => order = CHOOSE o \in Orders(regs_of(t, FieldNames(t))) : TRUE
              /\ devs' = Append(devs, d)
              /\ cls_config' = IF rc THEN r.cfg ELSE clear(cls_config, t)
              /\ touched' = Append(touched, IF rc THEN DOMAIN r.out ELSE {})
              /\ known' = Append(known, IF rc THEN r.out ELSE EmptyMap)
              /\ last' = [op |-> "__init__", h |-> Len(devs) + 1, rd |-> rc,
                          names |-> <<>>, kwargs |-> <<>>, err |-> "none",
                          out |-> IF rc THEN r.out ELSE EmptyMap,
                          log |-> IF rc THEN r.log ELSE <<>>]
    /\ pre' = Snapshot
    /\ pc' = "returned"
    /\ UNCHANGED <<bus_vars, sampled>>
    /\ UNCHANGED <<mem, nops, cls_data_reg>>

\* devs[h].get_config(rd, *args)
GetConfig(h, rd, args) ==
    /\ pc = "idle"
    /\ nops < MaxOps
    /\ h \in DOMAIN devs
    /\ \E order \in read_orders(devs[h].dev_type, rd, args) :
          LET r == get_config(mem, devs[h], cls_config, rd, args, order)
          IN  /\ devs' = IF devs[h].own
                         THEN [devs EXCEPT ![h].config = r.cfg] ELSE devs
              /\ cls_config' = IF devs[h].own THEN cls_config ELSE r.cfg
              /\ touched' = [touched EXCEPT ![h] = @ \cup
                                (IF rd /\ r.err = "none" THEN DOMAIN r.out ELSE {})]
              /\ known' = [known EXCEPT ![h] =
                                IF rd /\ r.err = "none" THEN learn(@, r.out) ELSE @]
              /\ last' = [op |-> "get_config", h |-> h, rd |-> rd, names |-> args,
                          kwargs |-> <<>>, err |-> r.err, out |-> r.out,
                          log |-> r.log]
    /\ pre' = Snapshot
    /\ pc' = "returned"
    /\ UNCHANGED <<bus_vars, sampled>>
    /\ nops' = nops + 1
    /\ UNCHANGED <<mem, cls_data_reg>>

\* devs[h].config(**kwargs)
Config(h, kwargs) ==
    /\ pc = "idle"
    /\ nops < MaxOps
    /\ h \in DOMAIN devs
    /\ \E order \in read_orders(devs[h].dev_type, Len(kwargs) = 0, <<>>) :
          LET r == config(mem, devs[h], cls_config, kwargs, order)
          IN  /\ devs' = IF devs[h].own
                         THEN [devs EXCEPT ![h].config = r.cfg] ELSE devs
              /\ cls_config' = IF devs[h].own THEN cls_config ELSE r.cfg
              /\ mem' = r.mem
              /\ touched' = [touched EXCEPT ![h] = @ \cup
                                (IF r.err # "none" THEN {}
                                 ELSE IF Len(kwargs) = 0 THEN DOMAIN r.out
                                 ELSE {kwargs[i].kw : i \in DOMAIN kwargs})]
              /\ known' = [known EXCEPT ![h] =
                                IF r.err # "none" THEN @
                                ELSE IF Len(kwargs) = 0 THEN learn(@, r.out)
                                ELSE learn(@, written_values(kwargs))]
              /\ last' = [op |-> "config", h |-> h, rd |-> FALSE, names |-> <<>>,
                          kwargs |-> kwargs, err |-> r.err, out |-> r.out,
                          log |-> r.log]
    /\ pre' = Snapshot
    /\ pc' = "returned"
    /\ UNCHANGED <<bus_vars, sampled>>
    /\ nops' = nops + 1
    /\ UNCHANGED cls_data_reg

\* the caller takes the result and goes on
Return ==
    /\ pc = "returned"
    /\ pc' = "idle"
    /\ UNCHANGED <<bus_vars, sampled>>
    /\ last' = NoCall
    /\ pre' = NoPre
    /\ UNCHANGED <<devs, cls_config, mem, touched, known, cls_data_reg, nops>>

Init ==
    /\ devs = <<>>
    /\ cls_config = EmptyMap
    /\ \E c \in InitContents : mem = [a \in Addrs |-> [r \in RegAddrs |-> c]]
    /\ touched = <<>>
    /\ known = <<>>
    /\ cls_data_reg = [t \in DataTypes |-> data_reg(t)]
    /\ calls = <<>>
    /\ buslog = <<>>
    /\ sampled = <<>>
    /\ pc = "idle"
    /\ last = NoCall
    /\ pre = NoPre
    /\ nops = 0

Idle == pc = "idle"
CanCall == pc = "idle" /\ nops < MaxOps

\* one device handle, requests of up to MaxNames names and MaxKw pairs
Next ==
    \/ /\ Idle /\ Len(devs) = 0
       /\ \E t \in Types, rc \in BOOLEAN : \E addr \in AddrsFor(t) : Create(t, addr, rc)
    \/ /\ CanCall
       /\ \E h \in DOMAIN devs, rd \in BOOLEAN :
             \E args \in NameSeqs(devs[h].dev_type, MaxNames) : GetConfig(h, rd, args)
    \/ /\ CanCall
       /\ \E h \in DOMAIN devs :
             \E kwargs \in KwSeqs(devs[h].dev_type, MaxKw) : Config(h, kwargs)
    \/ Return

Spec == Init /\ [][Next]_vars

\* up to MaxHandles device handles, requests of one name or one pair
NextHandles ==
    \/ /\ Idle /\ Len(devs) < MaxHandles
       /\ \E t \in Types, rc \in BOOLEAN : \E addr \in AddrsFor(t) : Create(t, addr, rc)
    \/ /\ CanCall
       /\ \E h \in DOMAIN devs, rd \in BOOLEAN :
             \E args \in NameSeqs(devs[h].dev_type, 1) : GetConfig(h, rd, args)
    \/ /\ CanCall
       /\ \E h \in DOMAIN devs :
             \E kwargs \in KwSeqs(devs[h].dev_type, 1) : Config(h, kwargs)
    \/ Return

SpecHandles == Init /\ [][NextHandles]_vars

-----------------------------------------------------------------------------
(* Data registers: I2c_device.get_raw and put_raw, the put_raw of the      *)
(* ADS1115 family, the constructor of DAC8574 and the assignments to the   *)
(* properties addr and bus                                                 *)

\* reg_name=None, the default of get_raw and put_raw
NoName == "None"

\* the key 0 of self._data_reg[0]; the keys of a table are register names
Key0 == "0"

\* the values put_raw is called with
RawValues == {0, 4660, 74565}   \* 0x0000, 0x1234, 0x12345

\* the 2-bit extended addresses DAC8574 handles are built with
ExtAddrs == {0, 1}

\* tbl[key], or the KeyError of a missing key
lookup(tbl, key) ==
    IF key \in DOMAIN tbl THEN [err |-> "none", reg |-> tbl[key]]
    ELSE [err |-> "KeyError", reg |-> <<>>]

\* the register get_raw and put_raw work on
pick_reg(tbl, reg_name) ==
    IF Cardinality(DOMAIN tbl) = 0 THEN [err |-> "AssertionError", reg |-> <<>>]
    ELSE IF reg_name # NoName THEN lookup(tbl, reg_name)
    ELSE IF Cardinality(DOMAIN tbl) # 1
         THEN [err |-> "AssertionError", reg |-> <<>>]
    ELSE LET name == lookup(tbl, Key0)         \* reg_name = self._data_reg[0]
         IN  IF name.err # "none" THEN name
             ELSE [err |-> "KeyError", reg |-> <<>>]

\* I2c_device.get_raw(reg_name)
get_raw(m, d, tbl, reg_name) ==
    LET p == pick_reg(tbl, reg_name)
    IN  IF p.err # "none"
        THEN [err |-> p.err, out |-> EmptyMap, log |-> <<>>]
        ELSE [err |-> "none",
              out |-> [k \in {"raw"} |-> bytes2int(read(m, d, p.reg[1], p.reg[2]))],
              log |-> <<ReadEntry(d.addr, p.reg[1], p.reg[2])>>]

\* I2c_device.put_raw(value, reg_name)
put_raw(m, d, tbl, value, reg_name) ==
    LET p == pick_reg(tbl, reg_name)
        data == int2bytes(value, p.reg[2])
    IN  IF p.err # "none"
        THEN [err |-> p.err, mem |-> m, log |-> <<>>]
        ELSE [err |-> "none", mem |-> write(m, d, data, p.reg[1]),
              log |-> <<WriteEntry(d.addr, p.reg[1], data)>>]

\* ADS1115.put_raw: assert reg_name is not "CONV"; same tells whether the
\* caller's string is the very object of the literal
ads_put_raw(m, d, tbl, value, reg_name, same) ==
    IF reg_name = "CONV" /\ same
    THEN [err |-> "AssertionError", mem |-> m, log |-> <<>>]
    ELSE put_raw(m, d, tbl, value, reg_name)

\* DAC8574.__init__: every ctrl byte of the class table is moved by the
\* extended address of the handle under construction
shift_regs(tbl, ext_addr) ==
    [reg \in DOMAIN tbl |-> <<tbl[reg][1] + shl(ext_addr, 6), tbl[reg][2]>>]

\* the register names a caller passes: those of the handle's type, none, 'CONV'
RegNamesFor(t) == DOMAIN data_reg(t) \cup {NoName, "CONV"}

\* the addresses and register pointers of the transport double
DataAddrs == UNION {{default_addr(t), 0} : t \in DataTypes}

DataRegAddrs ==
    UNION {{data_reg(t)[n][1] + 64 * k : n \in DOMAIN data_reg(t), k \in 0..MaxHandles}
           : t \in DataTypes}

DataCall(op, h, names, kwargs, err, out, log) ==
    [op |-> op, h |-> h, rd |-> FALSE, names |-> names, kwargs |-> kwargs,
     err |-> err, out |-> out, log |-> log]

\* dev = Type(addr=addr), for a DAC8574 Type(addr=addr, ext_addr=ext_addr)
CreateData(t, addr, ext_addr) ==
    /\ pc = "idle"
    /\ t = "DAC8574" \/ ext_addr = 0
    /\ devs' = Append(devs,
                  IF t = "DAC8574"
                  THEN new_device(t, addr) @@ [k \in {"ext_addr"} |-> ext_addr]
                  ELSE new_device(t, addr))
    /\ cls_config' = clear(cls_config, t)
    /\ cls_data_reg' = IF t = "DAC8574"
                       THEN [cls_data_reg EXCEPT ![t] = shift_regs(@, ext_addr)]
                       ELSE cls_data_reg
    /\ touched' = Append(touched, {})
    /\ known' = Append(known, EmptyMap)
    /\ last' = DataCall("__init__", Len(devs) + 1, <<>>, <<>>, "none", EmptyMap, <<>>)
    /\ pre' = Snapshot
    /\ pc' = "returned"
    /\ UNCHANGED <<bus_vars, sampled>>
    /\ UNCHANGED <<mem, nops>>

\* devs[h].get_raw(reg_name)
GetRaw(h, reg_name) ==
    /\ pc = "idle" /\ nops < MaxOps
    /\ h \in DOMAIN devs
    /\ LET r == get_raw(mem, devs[h], cls_data_reg[devs[h].dev_type], reg_name)
       IN  last' = DataCall("get_raw", h, <<reg_name>>, <<>>, r.err, r.out, r.log)
    /\ pre' = Snapshot
    /\ pc' = "returned"
    /\ UNCHANGED <<bus_vars, sampled>>
    /\ nops' = nops + 1
    /\ UNCHANGED <<devs, cls_config, mem, touched, known, cls_data_reg>>

\* devs[h].put_raw(value, reg_name)
PutRaw(h, value, reg_name, same) ==
    /\ pc = "idle" /\ nops < MaxOps
    /\ h \in DOMAIN devs
    /\ LET t == devs[h].dev_type
           r == IF t \in {"ADS1115", "ADS1113"}
                THEN ads_put_raw(mem, devs[h], cls_data_reg[t], value, reg_name, same)
                ELSE put_raw(mem, devs[h], cls_data_reg[t], value, reg_name)
       IN  /\ same \/ (reg_name = "CONV" /\ t \in {"ADS1115", "ADS1113"})
           /\ mem' = r.mem
           /\ last' = DataCall("put_raw", h, <<reg_name>>,
                               <<[kw |-> reg_name, v |-> value]>>,
                               r.err, EmptyMap, r.log)
    /\ pre' = Snapshot
    /\ pc' = "returned"
    /\ UNCHANGED <<bus_vars, sampled>>
    /\ nops' = nops + 1
    /\ UNCHANGED <<devs, cls_config, touched, known, cls_data_reg>>

\* devs[h].addr = value
SetAddr(h, value) ==
    /\ pc = "idle" /\ nops < MaxOps
    /\ h \in DOMAIN devs
    /\ LET r == addr_setter(devs[h], value)
       IN  /\ devs' = [devs EXCEPT ![h] = r.d]
           /\ last' = DataCall("set_addr", h, <<>>, <<[kw |-> "addr", v |-> value]>>,
                               r.err, EmptyMap, <<>>)
    /\ pre' = Snapshot
    /\ pc' = "returned"
    /\ UNCHANGED <<bus_vars, sampled>>
    /\ nops' = nops + 1
    /\ UNCHANGED <<cls_config, mem, touched, known, cls_data_reg>>

\* devs[h].bus = value
SetBus(h, value) ==
    /\ pc = "idle" /\ nops < MaxOps
    /\ h \in DOMAIN devs
    /\ LET r == bus_setter(devs[h], value)
       IN  /\ devs' = [devs EXCEPT ![h] = r.d]
           /\ last' = DataCall("set_bus", h, <<>>, <<[kw |-> "bus", v |-> value]>>,
                               r.err, EmptyMap, <<>>)
    /\ pre' = Snapshot
    /\ pc' = "returned"
    /\ UNCHANGED <<bus_vars, sampled>>
    /\ nops' = nops + 1
    /\ UNCHANGED <<cls_config, mem, touched, known, cls_data_reg>>

InitData ==
    /\ devs = <<>>
    /\ cls_config = EmptyMap
    /\ \E c \in InitContents : mem = [a \in DataAddrs |-> [r \in DataRegAddrs |-> c]]
    /\ touched = <<>>
    /\ known = <<>>
    /\ cls_data_reg = [t \in DataTypes |-> data_reg(t)]
    /\ calls = <<>>
    /\ buslog = <<>>
    /\ sampled = <<>>
    /\ pc = "idle"
    /\ last = NoCall
    /\ pre = NoPre
    /\ nops = 0

\* up to MaxHandles handles of the types with data registers
NextData ==
    \/ /\ Idle /\ Len(devs) < MaxHandles
       /\ \E t \in DataTypes, ext_addr \in ExtAddrs :
             \E addr \in {default_addr(t), 0} : CreateData(t, addr, ext_addr)
    \/ /\ CanCall
       /\ \E h \in DOMAIN devs :
             \E reg_name \in RegNamesFor(devs[h].dev_type) : GetRaw(h, reg_name)
    \/ /\ CanCall
       /\ \E h \in DOMAIN devs, value \in RawValues, same \in BOOLEAN :
             \E reg_name \in RegNamesFor(devs[h].dev_type) :
                PutRaw(h, value, reg_name, same)
    \/ /\ CanCall
       /\ \E h \in DOMAIN devs, value \in {0, 72, 76} : SetAddr(h, value)
    \/ /\ CanCall
       /\ \E h \in DOMAIN devs, value \in {0, DefaultBus} : SetBus(h, value)
    \/ Return

SpecData == InitData /\ [][NextData]_vars

-----------------------------------------------------------------------------
(* The engine calls transaction by transaction: concurrent callers share   *)
(* the bus, every bus transaction is one step, and the transport may fail  *)
(* a transaction or hand back a wrong number of bytes.  config, get_config *)
(* and get_raw have no exception handler: an exception ends the call.      *)

Callers == 1..MaxCallers

\* what a bus transaction can do: work, return one byte less or one byte
\* more than requested (reads), raise an I/O error
ReadOutcomes == {"ok", "short", "long", "ioerror"}
WriteOutcomes == {"ok", "ioerror"}

\* the bytes the transport hands back for a block read of n bytes
answer(m, d, ctrl, n, outcome) ==
    CASE outcome = "short" -> SubSeq(read(m, d, ctrl, n), 1, n - 1)
      [] outcome = "long"  -> Append(read(m, d, ctrl, n), 255)
      [] OTHER             -> read(m, d, ctrl, n)

\* the stage a call is in after an exception
retry_stage(stage) == stage

raise_stage(stage) == "done"

\* the values config and put_raw are called with by the concurrent callers
BusValues == {0, 1}

\* valid requests: up to MaxKw distinct fields of the type
BusKwSeqs(t) ==
    {s \in UNION {[1..k -> [kw : FieldNames(t), v : BusValues]] : k \in 0..MaxKw} :
        \A i, j \in DOMAIN s : i # j => s[i].kw # s[j].kw}

BusNameSeqs(t) ==
    {s \in UNION {[1..k -> FieldNames(t)] : k \in 0..MaxNames} :
        \A i, j \in DOMAIN s : i # j => s[i] # s[j]}

IdleCall ==
    [op |-> "none", path |-> "none", stage |-> "idle", id |-> 0, h |-> 0,
     names |-> <<>>, kwargs |-> <<>>, regs |-> <<>>, n |-> 0, val |-> 0,
     out |-> EmptyMap, err |-> "none"]

\* a call that ended with the exception err (or, with "none", returned)
ended(call, err) == [call EXCEPT !.stage = raise_stage(@), !.err = err]

BusEntry(c, call, op, ctrl, outcome, data) ==
    [caller |-> c, id |-> call.id, op |-> op, addr |-> devs[call.h].addr,
     ctrl |-> ctrl, nbytes |-> call.n, outcome |-> outcome, data |-> data]

\* c calls devs[h].config with kwargs (with none: the full forced read)
BeginConfig(c, h, kwargs) ==
    /\ calls[c].stage = "idle" /\ nops < MaxOps
    /\ LET t == devs[h].dev_type
           chk == check_inputs(t, kwargs, 1, <<>>)
           call == [IdleCall EXCEPT !.op = "config", !.id = nops + 1, !.h = h,
                                    !.kwargs = kwargs, !.n = conf_reg(t)["nbytes"]]
       IN  \E order \in read_orders(t, Len(kwargs) = 0, <<>>) :
             calls' = [calls EXCEPT ![c] =
                IF Len(kwargs) = 0
                THEN [call EXCEPT !.path = "scan", !.stage = "read", !.regs = order]
                ELSE IF chk.err # "none" THEN ended(call, chk.err)
                ELSE [call EXCEPT !.path = "rmw", !.stage = "read",
                                  !.regs = chk.regs]]
    /\ nops' = nops + 1
    /\ UNCHANGED <<devs, cls_config, mem, touched, known, cls_data_reg, buslog,
                   sampled, pc, last, pre>>

\* c calls devs[h].get_config(rd, *args)
BeginGetConfig(c, h, rd, args) ==
    /\ calls[c].stage = "idle" /\ nops < MaxOps
    /\ LET t == devs[h].dev_type
           call == [IdleCall EXCEPT !.op = "get_config", !.id = nops + 1, !.h = h,
                                    !.names = args, !.n = conf_reg(t)["nbytes"]]
           st == get_stored(self_config(devs[h], cls_config), args, 1, EmptyMap)
       IN  \E order \in read_orders(t, rd, args) :
             calls' = [calls EXCEPT ![c] =
                IF ~rd THEN [ended(call, st.err) EXCEPT !.out = st.out]
                ELSE IF check_args(t, args, 1) # "none"
                THEN ended(call, check_args(t, args, 1))
                ELSE [call EXCEPT !.path = "scan", !.stage = "read", !.regs = order]]
    /\ nops' = nops + 1
    /\ UNCHANGED <<devs, cls_config, mem, touched, known, cls_data_reg, buslog,
                   sampled, pc, last, pre>>

\* c calls devs[h].get_raw(reg_name)
BeginGetRaw(c, h, reg_name) ==
    /\ calls[c].stage = "idle" /\ nops < MaxOps
    /\ devs[h].dev_type \in DataTypes
    /\ LET p == pick_reg(cls_data_reg[devs[h].dev_type], reg_name)
           call == [IdleCall EXCEPT !.op = "get_raw", !.id = nops + 1, !.h = h,
                                    !.names = <<reg_name>>]
       IN  calls' = [calls EXCEPT ![c] =
              IF p.err # "none" THEN ended(call, p.err)
              ELSE [call EXCEPT !.path = "raw_get", !.stage = "read",
                                !.regs = <<p.reg[1]>>, !.n = p.reg[2]]]
    /\ nops' = nops + 1
    /\ UNCHANGED <<devs, cls_config, mem, touched, known, cls_data_reg, buslog,
                   sampled, pc, last, pre>>

\* c calls devs[h].put_raw(value, reg_name), reg_name a string of its own
BeginPutRaw(c, h, value, reg_name) ==
    /\ calls[c].stage = "idle" /\ nops < MaxOps
    /\ devs[h].dev_type \in DataTypes
    /\ LET p == pick_reg(cls_data_reg[devs[h].dev_type], reg_name)
           call == [IdleCall EXCEPT !.op = "put_raw", !.id = nops + 1, !.h = h,
                                    !.names = <<reg_name>>,
                                    !.kwargs = <<[kw |-> reg_name, v |-> value]>>]
       IN  calls' = [calls EXCEPT ![c] =
              IF p.err # "none" THEN ended(call, p.err)
              ELSE [call EXCEPT !.path = "raw_put", !.stage = "write",
                                !.regs = <<p.reg[1]>>, !.n = p.reg[2],
                                !.val = value]]
    /\ nops' = nops + 1
    /\ UNCHANGED <<devs, cls_config, mem, touched, known, cls_data_reg, buslog,
                   sampled, pc, last, pre>>

\* the call of c after its pending read of register regs[1] returned ans
after_read(call, t, ans) ==
    CASE call.path = "rmw" ->
            IF ans = <<>> THEN ended(call, "IndexError")
            ELSE [call EXCEPT !.stage = "write", !.val = bytes2int(ans)]
      [] call.path = "raw_get" ->
            IF ans = <<>> THEN ended(call, "IndexError")
            ELSE [ended(call, "none") EXCEPT
                     !.out = [k \in {"raw"} |-> bytes2int(ans)], !.regs = <<>>]
      [] call.path = "scan" ->
            IF Len(ans) # call.n THEN ended(call, "AssertionError")
            ELSE LET got == fields_in(t, wanted(t, call.names), call.regs[1])
                     out == [kw \in DOMAIN call.out \cup got |->
                                IF kw \in got
                                THEN bit_grab(bytes2int(ans), start_of(t, kw),
                                              nbits_of(t, kw))
                                ELSE call.out[kw]]
                 IN  IF Len(call.regs) = 1
                     THEN [ended(call, "none") EXCEPT !.out = out, !.regs = <<>>]
                     ELSE [call EXCEPT !.out = out, !.regs = Tail(@)]

\* the entries stored as soon as the call has its arguments
cached_eagerly(call, t) ==
    IF call.path = "rmw" /\ call.err = "none" /\ call.stage # "idle"
    THEN written_values(call.kwargs)
    ELSE IF call.path = "scan" /\ call.stage = "done" /\ call.err = "none"
    THEN call.out
    ELSE EmptyMap

\* the entries a call stores in self._config when it returns
cached_by(call, t) ==
    IF call.stage # "done" \/ call.err # "none" THEN EmptyMap
    ELSE IF call.path = "scan" THEN call.out
    ELSE IF call.path = "rmw" THEN written_values(call.kwargs)
    ELSE EmptyMap

\* the read transaction the call of c is waiting for
StepRead(c, outcome) ==
    /\ c \in DOMAIN calls /\ calls[c].stage = "read"
    /\ LET call == calls[c]
           d == devs[call.h]
           t == d.dev_type
           ans == answer(mem, d, call.regs[1], call.n, outcome)
           next == IF outcome = "ioerror" THEN ended(call, "IOError")
                   ELSE after_read(call, t, ans)
           cfg == store(self_config(d, cls_config), cached_by(next, t))
       IN  /\ calls' = [calls EXCEPT ![c] = next]
           /\ buslog' = Append(buslog,
                           BusEntry(c, call, "read_i2c_block_data", call.regs[1],
                                    outcome, <<>>))
           /\ devs' = IF d.own THEN [devs EXCEPT ![call.h].config = cfg] ELSE devs
           /\ cls_config' = IF d.own THEN cls_config ELSE cfg
    /\ UNCHANGED <<mem, touched, known, cls_data_reg, sampled, pc, last, pre, nops>>

\* the bytes of a write that does not start from the value read
write_data_blind(call, t) ==
    IF call.path = "rmw"
    THEN int2bytes(set_bits(t, call.kwargs, call.regs[1], 0, 1), call.n)
    ELSE int2bytes(call.val, call.n)

\* the bytes the call writes to register regs[1]
write_data(call, t) ==
    IF call.path = "rmw"
    THEN int2bytes(set_bits(t, call.kwargs, call.regs[1], call.val, 1), call.n)
    ELSE int2bytes(call.val, call.n)

\* the write transaction the call of c is about to issue
StepWrite(c, outcome) ==
    /\ c \in DOMAIN calls /\ calls[c].stage = "write"
    /\ LET call == calls[c]
           d == devs[call.h]
           t == d.dev_type
           data == write_data(call, t)
           next == IF outcome = "ioerror" THEN ended(call, "IOError")
                   ELSE IF Len(call.regs) = 1
                   THEN [ended(call, "none") EXCEPT !.regs = <<>>]
                   ELSE [call EXCEPT !.stage = "read", !.regs = Tail(@)]
           cfg == store(self_config(d, cls_config), cached_by(next, t))
       IN  /\ calls' = [calls EXCEPT ![c] = next]
           /\ buslog' = Append(buslog,
                           BusEntry(c, call, "write_i2c_block_data", call.regs[1],
                                    outcome, data))
           /\ mem' = IF outcome = "ok" THEN write(mem, d, data, call.regs[1]) ELSE mem
           /\ devs' = IF d.own THEN [devs EXCEPT ![call.h].config = cfg] ELSE devs
           /\ cls_config' = IF d.own THEN cls_config ELSE cfg
    /\ UNCHANGED <<touched, known, cls_data_reg, sampled, pc, last, pre, nops>>

\* the caller of c takes the result or the exception and is free again
Finish(c) ==
    /\ c \in DOMAIN calls /\ calls[c].stage = "done"
    /\ calls' = [calls EXCEPT ![c] = IdleCall]
    /\ UNCHANGED <<devs, cls_config, mem, touched, known, cls_data_reg, buslog,
                   sampled, pc, last, pre, nops>>

\* one handle of type t at its default address, built with read_config=False,
\* and the callers C, none of them in a call
InitBus(C) ==
    /\ \E t \in {"ADS1115", "LSM9DS1_ACC"} :
          /\ devs = <<new_device(t, default_addr(t))>>
          /\ cls_config = clear(EmptyMap, t)
    /\ \E c \in InitContents :
          mem = [a \in Addrs \cup DataAddrs |-> [r \in RegAddrs \cup DataRegAddrs |-> c]]
    /\ touched = <<{}>>
    /\ known = <<EmptyMap>>
    /\ cls_data_reg = [t \in DataTypes |-> data_reg(t)]
    /\ calls = [c \in C |-> IdleCall]
    /\ buslog = <<>>
    /\ sampled = <<>>
    /\ pc = "idle"
    /\ last = NoCall
    /\ pre = NoPre
    /\ nops = 0

\* the number of transactions the transport did not carry out properly
Faults == Cardinality({i \in DOMAIN buslog : buslog[i].outcome # "ok"})

\* a fault the transport may still produce
MayFail(outcome) == outcome = "ok" \/ Faults < MaxFaults

InitFaults == InitBus({1})

\* one caller, a transport that fails up to MaxFaults transactions
NextFaults ==
    \/ \E h \in DOMAIN devs :
          \E kwargs \in BusKwSeqs(devs[h].dev_type) : BeginConfig(1, h, kwargs)
    \/ \E h \in DOMAIN devs, rd \in BOOLEAN :
          \E args \in BusNameSeqs(devs[h].dev_type) : BeginGetConfig(1, h, rd, args)
    \/ \E h \in DOMAIN devs :
          \E reg_name \in DOMAIN data_reg("ADS1115") \cup {NoName} :
             BeginGetRaw(1, h, reg_name)
    \/ \E h \in DOMAIN devs, value \in BusValues :
          \E reg_name \in DOMAIN data_reg("ADS1115") \cup {NoName} :
             BeginPutRaw(1, h, value, reg_name)
    \/ \E outcome \in ReadOutcomes : MayFail(outcome) /\ StepRead(1, outcome)
    \/ \E outcome \in WriteOutcomes : MayFail(outcome) /\ StepWrite(1, outcome)
    \/ Finish(1)

SpecFaults == InitFaults /\ [][NextFaults]_vars

InitRace == InitBus(Callers)

\* MaxCallers callers running config on one handle, a transport that works
NextRace ==
    \/ \E c \in Callers, h \in DOMAIN devs :
          \E kwargs \in BusKwSeqs(devs[h].dev_type) :
             Len(kwargs) >= 1 /\ BeginConfig(c, h, kwargs)
    \/ \E c \in Callers : StepRead(c, "ok")
    \/ \E c \in Callers : StepWrite(c, "ok")

SpecRace == InitRace /\ [][NextRace]_vars

-----------------------------------------------------------------------------
(* bit_set and bit_grab applied to a window of a number *)

\* the windows [start, start+nbits) that lie within MaxBits bits
BitWindows ==
    {w \in (0..(MaxBits - 1)) \X (1..MaxBits) : w[1] + w[2] <= MaxBits}

\* the numbers a window is set in: 0, patterns 0xA5A5 and 0x5A5A, all ones,
\* and one with a bit above MaxBits
BitBases == {0, 1, 42405, 23130, (2 ^ MaxBits) - 1, (2 ^ MaxBits) + 42405}

\* the values tried for a window of nbits bits
BitValues(nbits) ==
    {x \in {0, 1, 2, 5, 2 ^ (nbits - 1), (2 ^ nbits) - 2, (2 ^ nbits) - 1} :
        x >= 0 /\ x < 2 ^ nbits}

BitsCall(num, start, nbits, value) ==
    [op |-> "bit_set", num |-> num, start |-> start, nbits |-> nbits,
     value |-> value, set |-> None, grab |-> None]

\* bit_set applied to the arguments drawn
SetBits ==
    /\ pc = "idle"
    /\ last' = [last EXCEPT
                  !.set = <<bit_set(last.num, last.start, last.nbits, last.value)>>]
    /\ pc' = "set"
    /\ UNCHANGED <<devs, cls_config, mem, touched, known, cls_data_reg,
                   bus_vars, sampled, pre, nops>>

\* bit_grab applied to the result, on the same window
GrabBits ==
    /\ pc = "set"
    /\ last' = [last EXCEPT
                  !.grab = <<bit_grab(last.set[1], last.start, last.nbits)>>]
    /\ pc' = "grabbed"
    /\ UNCHANGED <<devs, cls_config, mem, touched, known, cls_data_reg,
                   bus_vars, sampled, pre, nops>>

InitBits ==
    /\ devs = <<>>
    /\ cls_config = EmptyMap
    /\ mem = EmptyMap
    /\ touched = <<>>
    /\ known = <<>>
    /\ cls_data_reg = EmptyMap
    /\ calls = <<>>
    /\ buslog = <<>>
    /\ sampled = <<>>
    /\ pc = "idle"
    /\ \E w \in BitWindows, num \in BitBases :
          \E value \in BitValues(w[2]) : last = BitsCall(num, w[1], w[2], value)
    /\ pre = NoPre
    /\ nops = 0

NextBits == SetBits \/ GrabBits

SpecBits == InitBits /\ [][NextBits]_vars

-----------------------------------------------------------------------------
(* bit_set with values of any size *)

\* the values tried for a window of nbits bits, with some that do not fit it
AnyBitValues(nbits) == BitValues(nbits) \cup {2 ^ nbits, (2 ^ nbits) + 1}

InitAnyBits ==
    /\ devs = <<>>
    /\ cls_config = EmptyMap
    /\ mem = EmptyMap
    /\ touched = <<>>
    /\ known = <<>>
    /\ cls_data_reg = EmptyMap
    /\ calls = <<>>
    /\ buslog = <<>>
    /\ sampled = <<>>
    /\ pc = "idle"
    /\ \E w \in BitWindows, num \in BitBases :
          \E value \in AnyBitValues(w[2]) : last = BitsCall(num, w[1], w[2], value)
    /\ pre = NoPre
    /\ nops = 0

SpecAnyBits == InitAnyBits /\ [][NextBits]_vars

-----------------------------------------------------------------------------
(* bytes2int and int2bytes applied to a byte sequence *)

\* the bytes of the sequences tried
ByteSamples == {0, 1, 165, 255}

ByteSeqs == UNION {[1..n -> ByteSamples] : n \in 0..MaxBytes}

BytesCall(b) ==
    [op |-> "bytes2int", b |-> b, err |-> "none", int |-> None, bytes |-> None]

\* bytes2int(b): out = byte_array[0] raises on the empty sequence
Bytes2Int ==
    /\ pc = "idle"
    /\ last' = IF Len(last.b) = 0
               THEN [last EXCEPT !.err = "IndexError"]
               ELSE [last EXCEPT !.int = <<bytes2int(last.b)>>]
    /\ pc' = "assembled"
    /\ UNCHANGED <<devs, cls_config, mem, touched, known, cls_data_reg,
                   bus_vars, sampled, pre, nops>>

\* int2bytes on the number assembled, with the length of the sequence
Int2Bytes ==
    /\ pc = "assembled"
    /\ last.err = "none"
    /\ last' = [last EXCEPT !.bytes = <<int2bytes(last.int[1], Len(last.b))>>]
    /\ pc' = "split"
    /\ UNCHANGED <<devs, cls_config, mem, touched, known, cls_data_reg,
                   bus_vars, sampled, pre, nops>>

InitBytes ==
    /\ devs = <<>>
    /\ cls_config = EmptyMap
    /\ mem = EmptyMap
    /\ touched = <<>>
    /\ known = <<>>
    /\ cls_data_reg = EmptyMap
    /\ calls = <<>>
    /\ buslog = <<>>
    /\ sampled = <<>>
    /\ pc = "idle"
    /\ \E b \in ByteSeqs : last = BytesCall(b)
    /\ pre = NoPre
    /\ nops = 0

NextBytes == Bytes2Int \/ Int2Bytes

SpecBytes == InitBytes /\ [][NextBytes]_vars

-----------------------------------------------------------------------------
(* twoscompl2int applied to an n-bit number *)

\* the widths up to which every n-bit number is tried
FullWidth == 8

\* the n-bit numbers tried: all of them for small n, else those around the
\* sign change and the ends of the range
TwosRaws(n) ==
    IF n <= FullWidth THEN 0..((2 ^ n) - 1)
    ELSE {0, 1, (2 ^ (n - 1)) - 1, 2 ^ (n - 1), (2 ^ (n - 1)) + 1,
          (2 ^ n) - 2, (2 ^ n) - 1, 42405 % (2 ^ n)}

TwosCall(num, n) == [op |-> "twoscompl2int", num |-> num, n |-> n, out |-> None]

TwosCompl2Int ==
    /\ pc = "idle"
    /\ last' = [last EXCEPT !.out = <<twoscompl2int(last.num, last.n)>>]
    /\ pc' = "decoded"
    /\ UNCHANGED <<devs, cls_config, mem, touched, known, cls_data_reg,
                   bus_vars, sampled, pre, nops>>

InitTwos ==
    /\ devs = <<>>
    /\ cls_config = EmptyMap
    /\ mem = EmptyMap
    /\ touched = <<>>
    /\ known = <<>>
    /\ cls_data_reg = EmptyMap
    /\ calls = <<>>
    /\ buslog = <<>>
    /\ sampled = <<>>
    /\ pc = "idle"
    /\ \E n \in 1..MaxBits : \E num \in TwosRaws(n) : last = TwosCall(num, n)
    /\ pre = NoPre
    /\ nops = 0

NextTwos == TwosCompl2Int

SpecTwos == InitTwos /\ [][NextTwos]_vars

-----------------------------------------------------------------------------
(* I2c_device.write with every form of its arguments *)

\* the key under which the transport double keeps the byte a device takes
\* and returns without a register pointer (write_byte, read_byte)
ByteReg == -1

\* data is None, an int or a list; ctrl is None or <<an int>>
NoData == [kind |-> "none", v |-> <<>>]
IntData(x) == [kind |-> "int", v |-> <<x>>]
ListData(xs) == [kind |-> "list", v |-> xs]

\* no check of the range at all
is_anything(x) == TRUE

\* x >= 0 and x < 2**8
is_byte(x) == x >= 0 /\ x < 2 ^ 8

ByteEntry(op, addr, data) ==
    [op |-> op, addr |-> addr, ctrl |-> ByteReg, nbytes |-> 1, data |-> data]

\* self.bus.write_byte(self.addr, b)
write_byte(m, d, b) ==
    [err |-> "none", mem |-> [m EXCEPT ![d.addr][ByteReg] = b],
     log |-> <<ByteEntry("write_byte", d.addr, <<b>>)>>]

\* self.bus.write_i2c_block_data(self.addr, ctrl, data)
write_block(m, d, ctrl, data) ==
    [err |-> "none", mem |-> write(m, d, data, ctrl),
     log |-> <<WriteEntry(d.addr, ctrl, data)>>]

write_fails(m) == [err |-> "AssertionError", mem |-> m, log |-> <<>>]

\* I2c_device.write(data, ctrl)
device_write(m, d, data, ctrl) ==
    IF ctrl = None
    THEN IF data.kind = "none" THEN write_byte(m, d, 0)
         ELSE IF data.kind = "int" /\ is_byte(data.v[1])
              THEN write_byte(m, d, data.v[1])
              ELSE write_fails(m)
    ELSE IF ~is_byte(ctrl[1]) THEN write_fails(m)
    ELSE IF data.kind = "none" THEN write_byte(m, d, ctrl[1])
    ELSE IF data.kind = "list"
         THEN IF \A i \in DOMAIN data.v : is_byte(data.v[i])
              THEN write_block(m, d, ctrl[1], data.v)
              ELSE write_fails(m)
    ELSE IF is_byte(data.v[1]) THEN write_block(m, d, ctrl[1], data.v)
    ELSE write_fails(m)

\* the bytes and register pointers a caller passes, some outside 0..255
WriteBytes == {-1, 0, 7, 255, 256}
WriteCtrls == {None} \cup {<<c>> : c \in WriteBytes}
WriteData ==
    {NoData} \cup {IntData(x) : x \in WriteBytes}
    \cup {ListData(xs) : xs \in {<<>>, <<7>>, <<7, 255>>, <<7, 256>>, <<-1, 0>>}}

WriteCall(h, data, ctrl, r) ==
    [op |-> "write", h |-> h, data |-> data, ctrl |-> ctrl, err |-> r.err,
     log |-> r.log]

\* devs[h].write(data, ctrl)
Write(h, data, ctrl) ==
    /\ pc = "idle" /\ nops < MaxOps
    /\ h \in DOMAIN devs
    /\ LET r == device_write(mem, devs[h], data, ctrl)
       IN  /\ mem' = r.mem
           /\ last' = WriteCall(h, data, ctrl, r)
    /\ pre' = Snapshot
    /\ pc' = "returned"
    /\ nops' = nops + 1
    /\ UNCHANGED <<devs, cls_config, touched, known, cls_data_reg, bus_vars,
                   sampled>>

\* the registers of the transport double: the byte without a pointer and
\* the pointers a valid call can name
WriteRegs == {ByteReg} \cup {c \in WriteBytes : is_byte(c)}

\* one handle of the generic kind, a switch at its default address
InitWrite ==
    /\ devs = <<new_device("TCA9548A", default_addr("TCA9548A"))>>
    /\ cls_config = clear(EmptyMap, "TCA9548A")
    /\ \E c \in {0, 165} :
          mem = [a \in {default_addr("TCA9548A")} |-> [r \in WriteRegs |-> c]]
    /\ touched = <<{}>>
    /\ known = <<EmptyMap>>
    /\ cls_data_reg = [t \in DataTypes |-> data_reg(t)]
    /\ calls = <<>>
    /\ buslog = <<>>
    /\ sampled = <<>>
    /\ pc = "idle"
    /\ last = NoCall
    /\ pre = NoPre
    /\ nops = 0

NextWrite ==
    \/ \E h \in DOMAIN devs, data \in WriteData, ctrl \in WriteCtrls :
          Write(h, data, ctrl)
    \/ Return

SpecWrite == InitWrite /\ [][NextWrite]_vars

-----------------------------------------------------------------------------
(* The switches TCA9548A and TCA9545A, and set_focus of a grouped device *)

SwitchTypes == {"TCA9548A", "TCA9545A"}

\* the channels of a switch: len(settings) of set_channels
channel_count(t) == IF t = "TCA9545A" THEN 4 ELSE 8

\* byte2bits(num, n): the bits of num, the least significant first
byte2bits(num, n) == [i \in 1..n |-> bit_grab(num, i - 1, 1)]

\* self.read() of a switch: nbytes = 1 and no ctrl, hence bus.read_byte
read_byte(m, d) == m[d.addr][ByteReg]

\* settings that take nothing from the device
no_settings(m, sw) == [i \in 1..channel_count(sw.dev_type) |-> 0]

\* get_settings: TCA9545A keeps the four low bits, TCA9548A all eight
get_settings(m, sw) ==
    SubSeq(byte2bits(read_byte(m, sw), 8), 1, channel_count(sw.dev_type))

RECURSIVE ctrl_byte_loop(_, _, _)
\* for s in reversed(settings): ctrl_byte = (ctrl_byte << 1) + s
ctrl_byte_loop(ctrl_byte, settings, i) ==
    IF i = 0 THEN ctrl_byte
    ELSE ctrl_byte_loop(shl(ctrl_byte, 1) + settings[i], settings, i - 1)

\* set_channels(settings)
set_channels(m, sw, settings) ==
    IF Len(settings) # channel_count(sw.dev_type) THEN write_fails(m)
    ELSE IF \E i \in DOMAIN settings : settings[i] \notin {0, 1} THEN write_fails(m)
    ELSE device_write(m, sw, NoData, <<ctrl_byte_loop(0, settings, Len(settings))>>)

\* the body enable and disable share: the channels listed are set to x
switch_channels(m, sw, channels, x) ==
    LET n == channel_count(sw.dev_type)
        settings == get_settings(m, sw)
        new == [i \in 1..n |-> IF (i - 1) \in Range(channels) THEN x ELSE settings[i]]
        r == set_channels(m, sw, new)
    IN  IF Len(channels) = 0 THEN [err |-> "ValueError", mem |-> m, log |-> <<>>]
        ELSE IF \E i \in DOMAIN channels : channels[i] > n - 1 \/ channels[i] < 0
        THEN write_fails(m)
        ELSE [r EXCEPT !.log = <<ByteEntry("read_byte", sw.addr, <<>>)>> \o @]

enable(m, sw, channels) == switch_channels(m, sw, channels, 1)

disable(m, sw, channels) == switch_channels(m, sw, channels, 0)

\* sw[ch] = x of a Python list: a negative index counts from the end
set_item(sw, ch, x) ==
    IF ch >= 0 /\ ch < Len(sw) THEN [err |-> "none", sw |-> [sw EXCEPT ![ch + 1] = x]]
    ELSE IF ch < 0 /\ ch >= -Len(sw)
    THEN [err |-> "none", sw |-> [sw EXCEPT ![Len(sw) + ch + 1] = x]]
    ELSE [err |-> "IndexError", sw |-> sw]

RECURSIVE mute_channels(_, _, _)
\* for ch in self.group['channels']: sw[ch] = 0
mute_channels(sw, channels, i) ==
    IF i > Len(channels) THEN [err |-> "none", sw |-> sw]
    ELSE LET r == set_item(sw, channels[i], 0)
         IN  IF r.err # "none" THEN r ELSE mute_channels(r.sw, channels, i + 1)

\* settings with the own channel alone, whatever the switch had
focus_only_me(sw, group) ==
    set_item([i \in DOMAIN sw |-> 0], group.me, 1)

\* the settings set_focus builds from those of the switch
focus_settings(sw, group) ==
    LET muted == mute_channels(sw, group.channels, 1)
    IN  IF muted.err # "none" THEN muted ELSE set_item(muted.sw, group.me, 1)

\* set_focus of ADS1115 and HIH8121; ds are the handles, group.switch one
set_focus(m, ds, d) ==
    IF d.group = None THEN [err |-> "none", mem |-> m, log |-> <<>>]
    ELSE LET group == d.group[1]
             sw == ds[group.switch]
             rd == <<ByteEntry("read_byte", sw.addr, <<>>)>>
             new == focus_settings(get_settings(m, sw), group)
             r == set_channels(m, sw, new.sw)
         IN  IF new.err # "none" THEN [err |-> new.err, mem |-> m, log |-> rd]
             ELSE [r EXCEPT !.log = rd \o @]

\* the control bytes a switch starts with
SwitchBytes == {0, 10, 165, 255}

\* the channels a caller lists, some outside every switch
ChannelLists == {<<>>, <<0>>, <<3>>, <<1, 2>>, <<7>>, <<4, 0>>, <<8>>, <<-1>>, <<0, 9>>}

\* the groups a device is built with: the switch is handle 1
SwitchGroups ==
    {[me |-> me, channels |-> chs, switch |-> 1] :
        me \in {0, 1}, chs \in {<<0, 1>>, <<0, 1, 2>>}}

SwitchCall(op, h, channels, r) ==
    [op |-> op, h |-> h, channels |-> channels, err |-> r.err, log |-> r.log]

\* devs[h].enable(channels) on a switch
Enable(h, channels) ==
    /\ pc = "idle" /\ nops < MaxOps
    /\ h \in DOMAIN devs /\ devs[h].dev_type \in SwitchTypes
    /\ LET r == enable(mem, devs[h], channels)
       IN  mem' = r.mem /\ last' = SwitchCall("enable", h, channels, r)
    /\ pre' = Snapshot
    /\ pc' = "returned"
    /\ nops' = nops + 1
    /\ UNCHANGED <<devs, cls_config, touched, known, cls_data_reg, bus_vars,
                   sampled>>

\* devs[h].disable(channels) on a switch
Disable(h, channels) ==
    /\ pc = "idle" /\ nops < MaxOps
    /\ h \in DOMAIN devs /\ devs[h].dev_type \in SwitchTypes
    /\ LET r == disable(mem, devs[h], channels)
       IN  mem' = r.mem /\ last' = SwitchCall("disable", h, channels, r)
    /\ pre' = Snapshot
    /\ pc' = "returned"
    /\ nops' = nops + 1
    /\ UNCHANGED <<devs, cls_config, touched, known, cls_data_reg, bus_vars,
                   sampled>>

\* devs[h].set_focus() on a device that can be part of a group
SetFocus(h) ==
    /\ pc = "idle" /\ nops < MaxOps
    /\ h \in DOMAIN devs /\ devs[h].dev_type \notin SwitchTypes
    /\ LET r == set_focus(mem, devs, devs[h])
       IN  mem' = r.mem /\ last' = SwitchCall("set_focus", h, <<>>, r)
    /\ pre' = Snapshot
    /\ pc' = "returned"
    /\ nops' = nops + 1
    /\ UNCHANGED <<devs, cls_config, touched, known, cls_data_reg, bus_vars,
                   sampled>>

\* a device of type t with these attributes beside addr and bus
grouped_device(t, cycle, group) ==
    new_device(t, default_addr(t))
    @@ [k \in {"cycle", "group"} |-> IF k = "cycle" THEN cycle ELSE group]

\* handle 1 is a switch, handle 2 an ADS1115 or HIH8121, in a group or not
InitSwitch ==
    /\ \E st \in SwitchTypes, t \in {"ADS1115", "HIH8121"} :
          \E group \in {None} \cup {<<g>> : g \in SwitchGroups} :
             /\ devs = <<new_device(st, default_addr(st)),
                         grouped_device(t, None, group)>>
             /\ cls_config = clear(EmptyMap, t)
             /\ \E b \in SwitchBytes :
                   mem = [a \in {default_addr(st), default_addr(t)} |->
                            [r \in {ByteReg} |-> b]]
    /\ touched = <<{}, {}>>
    /\ known = <<EmptyMap, EmptyMap>>
    /\ cls_data_reg = [t \in DataTypes |-> data_reg(t)]
    /\ calls = <<>>
    /\ buslog = <<>>
    /\ sampled = <<>>
    /\ pc = "idle"
    /\ last = NoCall
    /\ pre = NoPre
    /\ nops = 0

NextSwitch ==
    \/ \E h \in DOMAIN devs, channels \in ChannelLists : Enable(h, channels)
    \/ \E h \in DOMAIN devs, channels \in ChannelLists : Disable(h, channels)
    \/ \E h \in DOMAIN devs : SetFocus(h)
    \/ Return

SpecSwitch == InitSwitch /\ [][NextSwitch]_vars

-----------------------------------------------------------------------------
(* The sampling facades: get of ADS1115, HIH8121, LSM9DS1_MAG, LSM9DS1_ACC *)
(* The measurement itself (get_single, get_data, get_output) is kept as    *)
(* the sub-call that the transport lets through or fails; the switch of a  *)
(* group is a device of the transport double.                              *)

\* the types whose facade is modelled; the LSM9DS1 types know no group
FacadeTypes == {"ADS1115", "HIH8121", "LSM9DS1_MAG", "LSM9DS1_ACC"}

\* the elements of a cycle: a MUX setting of the ADS1115, an index into the
\* data of the HIH8121, an axis of the LSM9DS1; 1 and 2 are valid for all
CycleElems == {1, 2}

\* an optional attribute is None or a one-element sequence holding its value
Cycles == UNION {[1..k -> CycleElems] : k \in 1..MaxCycle}
CycleArgs == {None} \cup {<<c>> : c \in Cycles}

\* the group a caller passes: its own channel, the group's channels, and the
\* switch, which is handle 1
Group == [me |-> 0, channels |-> <<0, 1>>, switch |-> 1]
GroupArgs(t) == IF t \in {"ADS1115", "HIH8121"} THEN {None, <<Group>>} ELSE {None}

\* self.cycle.append(self.cycle.pop(0))
rotate(c) == Append(Tail(c), Head(c))

\* what a facade call leaves: its exception, the handle, the transport
\* double, its switch transactions, the element selected
Sampled(err, d, m, log, selected) ==
    [err |-> err, d |-> d, mem |-> m, log |-> log, selected |-> selected]

\* self.group['switch'].disable(self.group['me']), called whether or not
\* there is a group; fault tells that the transport raises in it
disable_me(m, ds, d, fault) ==
    IF d.group = None THEN [err |-> "TypeError", mem |-> m, log |-> <<>>]
    ELSE IF fault = "disable" THEN [err |-> "IOError", mem |-> m, log |-> <<>>]
    ELSE disable(m, ds[d.group[1].switch], <<d.group[1].me>>)

\* ADS1115.get: set_focus, get_single on cycle[0], rotation, then disable;
\* fault names the sub-call in which the transport raises
ads1115_get(m, ds, d, fault) ==
    LET has_cycle == d.cycle # None
        c == d.cycle[1]
        d1 == IF has_cycle THEN [d EXCEPT !.cycle = <<rotate(c)>>] ELSE d
        f == set_focus(m, ds, d)
        off == disable_me(f.mem, ds, d, fault)
    IN  IF d.group # None /\ fault = "set_focus"
        THEN Sampled("IOError", d, m, <<>>, None)
        ELSE IF f.err # "none" THEN Sampled(f.err, d, f.mem, f.log, None)
        ELSE IF has_cycle /\ Len(c) = 0 THEN Sampled("IndexError", d, f.mem, f.log, None)
        ELSE IF has_cycle /\ c[1] \notin 0..7
        THEN Sampled("AssertionError", d, f.mem, f.log, None)
        ELSE IF fault = "get_single" THEN Sampled("IOError", d, f.mem, f.log, None)
        ELSE Sampled(off.err, d1, off.mem, f.log \o off.log,
                     IF off.err = "none" /\ has_cycle THEN <<c[1]>> ELSE None)

\* HIH8121.get: set_focus, request_measurement, get_data, then the index
\* from cycle[0] and the rotation, then disable
hih8121_get(m, ds, d, fault) ==
    LET has_cycle == d.cycle # None
        c == d.cycle[1]
        d1 == IF has_cycle THEN [d EXCEPT !.cycle = <<rotate(c)>>] ELSE d
        f == set_focus(m, ds, d)
        req == device_write(f.mem, d, NoData, None)
        off == disable_me(req.mem, ds, d, fault)
    IN  IF d.group # None /\ fault = "set_focus"
        THEN Sampled("IOError", d, m, <<>>, None)
        ELSE IF f.err # "none" THEN Sampled(f.err, d, f.mem, f.log, None)
        ELSE IF fault = "request_measurement"
        THEN Sampled("IOError", d, f.mem, f.log, None)
        ELSE IF fault = "get_data" THEN Sampled("IOError", d, req.mem, f.log, None)
        ELSE IF has_cycle /\ Len(c) = 0
        THEN Sampled("IndexError", d, req.mem, f.log, None)
        ELSE Sampled(off.err, d1, off.mem, f.log \o off.log,
                     IF off.err = "none" /\ has_cycle THEN <<c[1]>> ELSE None)

\* LSM9DS1_MAG.get: the axis is cycle[0], the cycle is rotated, and then
\* get_output measures along the axis
lsm9ds1_mag_get(m, d, fault) ==
    LET has_cycle == d.cycle # None
        c == d.cycle[1]
        axis == IF has_cycle THEN c[1] ELSE d.axis % 3
        d1 == IF has_cycle THEN [d EXCEPT !.cycle = <<rotate(c)>>] ELSE d
    IN  IF has_cycle /\ Len(c) = 0 THEN Sampled("IndexError", d, m, <<>>, None)
        ELSE IF axis \notin 0..2 THEN Sampled("UnboundLocalError", d1, m, <<>>, None)
        ELSE IF fault = "get_output" THEN Sampled("IOError", d1, m, <<>>, None)
        ELSE Sampled("none", d1, m, <<>>, IF has_cycle THEN <<axis>> ELSE None)

\* LSM9DS1_ACC.get: the specification is cycle[0], the cycle is rotated, and
\* then get_output checks the specification and measures
lsm9ds1_acc_get(m, d, fault) ==
    LET has_cycle == d.cycle # None
        c == d.cycle[1]
        spec == IF has_cycle THEN c[1] ELSE d.mspec
        d1 == IF has_cycle THEN [d EXCEPT !.cycle = <<rotate(c)>>] ELSE d
    IN  IF has_cycle /\ Len(c) = 0 THEN Sampled("IndexError", d, m, <<>>, None)
        ELSE IF spec % 10 \notin 0..2 \/ spec - (spec % 10) \notin {0, 10, 20}
        THEN Sampled("AssertionError", d1, m, <<>>, None)
        ELSE IF fault = "get_output" THEN Sampled("IOError", d1, m, <<>>, None)
        ELSE Sampled("none", d1, m, <<>>, IF has_cycle THEN <<spec>> ELSE None)

\* the sub-calls of a facade call in which the transport can raise
GetFaults(d) ==
    CASE d.dev_type = "ADS1115" ->
            {"none", "get_single"}
            \cup (IF d.group # None THEN {"set_focus", "disable"} ELSE {})
      [] d.dev_type = "HIH8121" ->
            {"none", "request_measurement", "get_data"}
            \cup (IF d.group # None THEN {"set_focus", "disable"} ELSE {})
      [] OTHER -> {"none", "get_output"}

FacadeCall(op, h, fault, err, log, selected) ==
    [op |-> op, h |-> h, fault |-> fault, err |-> err, log |-> log,
     selected |-> selected]

\* the constructor of a facade type: cycle and group from the keyword
\* arguments or _default, the cache entries set to None
CreateFacade(t, addr, cycle, group) ==
    /\ pc = "idle"
    /\ devs' = Append(devs,
                  new_device(t, addr)
                  @@ [k \in {"cycle", "group", "axis", "mspec"} |->
                        CASE k = "cycle" -> cycle
                          [] k = "group" -> group
                          [] k = "axis" -> 0
                          [] k = "mspec" -> 10])
    /\ cls_config' = clear(cls_config, t)
    /\ touched' = Append(touched, {})
    /\ known' = Append(known, EmptyMap)
    /\ sampled' = Append(sampled, [cycle0 |-> cycle, picks |-> <<>>, failed |-> 0])
    /\ last' = FacadeCall("__init__", Len(devs) + 1, "none", "none", <<>>, None)
    /\ pre' = Snapshot
    /\ pc' = "returned"
    /\ UNCHANGED <<mem, cls_data_reg, bus_vars, nops>>

\* one call of get on handle h
Get(h, fault) ==
    /\ pc = "idle"
    /\ nops < MaxSamples
    /\ h \in DOMAIN devs /\ devs[h].dev_type \in FacadeTypes
    /\ fault \in GetFaults(devs[h])
    /\ LET d == devs[h]
           r == CASE d.dev_type = "ADS1115" -> ads1115_get(mem, devs, d, fault)
                  [] d.dev_type = "HIH8121" -> hih8121_get(mem, devs, d, fault)
                  [] d.dev_type = "LSM9DS1_MAG" -> lsm9ds1_mag_get(mem, d, fault)
                  [] d.dev_type = "LSM9DS1_ACC" -> lsm9ds1_acc_get(mem, d, fault)
       IN  /\ devs' = [devs EXCEPT ![h] = r.d]
           /\ mem' = r.mem
           /\ sampled' = [sampled EXCEPT
                 ![h].picks = IF r.err = "none" THEN @ \o r.selected ELSE @,
                 ![h].failed = IF r.err = "none" THEN @ ELSE @ + 1]
           /\ last' = FacadeCall("get", h, fault, r.err, r.log, r.selected)
    /\ pre' = Snapshot
    /\ pc' = "returned"
    /\ nops' = nops + 1
    /\ UNCHANGED <<cls_config, touched, known, cls_data_reg, bus_vars>>

\* handle 1 is the switch of the groups; the facade handle is built next
InitFacade ==
    /\ devs = <<new_device("TCA9548A", default_addr("TCA9548A"))>>
    /\ cls_config = EmptyMap
    /\ \E b \in {0, 165} :
          mem = [a \in {default_addr(t) : t \in FacadeTypes \cup {"TCA9548A"}} |->
                    [r \in {ByteReg} |-> b]]
    /\ touched = <<{}>>
    /\ known = <<EmptyMap>>
    /\ cls_data_reg = [t \in DataTypes |-> data_reg(t)]
    /\ calls = <<>>
    /\ buslog = <<>>
    /\ sampled = <<[cycle0 |-> None, picks |-> <<>>, failed |-> 0]>>
    /\ pc = "idle"
    /\ last = NoCall
    /\ pre = NoPre
    /\ nops = 0

\* one facade handle, up to MaxSamples samples
NextFacade ==
    \/ /\ Len(devs) = 1
       /\ \E t \in FacadeTypes, cycle \in CycleArgs :
            \E group \in GroupArgs(t) :
                CreateFacade(t, default_addr(t), cycle, group)
    \/ \E h \in DOMAIN devs : \E fault \in GetFaults(devs[h]) : Get(h, fault)
    \/ Return

SpecFacade == InitFacade /\ [][NextFacade]_vars

-----------------------------------------------------------------------------
(* Vocabulary of the properties *)

Returned(op) == pc = "returned" /\ last.op = op
Succeeded(op) == Returned(op) /\ last.err = "none"

\* the handle the last call was made on, and its device type
Dev == devs[last.h]
DevType == devs[last.h].dev_type

\* the configuration cache of handle h now, and when the last call started
CacheNow(h) == self_config(devs[h], cls_config)
CacheBefore(h) == self_config(pre.devs[h], pre.cls_config)

\* a cache entry; a missing key holds no value either
Entry(cfg, kw) == IF kw \in DOMAIN cfg THEN cfg[kw] ELSE None

\* the content of register r of the last call's device, as the nbytes-wide
\* unsigned number the device holds in memory m
Content(m, r) == m[Dev.addr][r] % (256 ^ conf_reg(DevType)["nbytes"])

\* the raw value of the bit window [start, start+nbits) of x
Window(x, start, nbits) == (x \div (2 ^ start)) % (2 ^ nbits)
Bit(x, i) == (x \div (2 ^ i)) % 2

\* the raw value of field kw of the last call's device in memory m
RawField(m, kw) ==
    Window(Content(m, conf_reg(DevType)[kw][1]),
           conf_reg(DevType)[kw][2], conf_reg(DevType)[kw][3])

BadPair(t, p) ==
    \/ p.kw \notin DOMAIN conf_reg(t)
    \/ p.kw = "nbytes"
    \/ ~(0 <= p.v /\ p.v < 2 ^ conf_reg(t)[p.kw][3])

-----------------------------------------------------------------------------
\* C1: a successful set_fields({A: v}) leaves the raw value of every other
\* field B of the same register unchanged in the device register
C1_SiblingFieldUnchanged ==
    (Succeeded("config") /\ Len(last.kwargs) = 1) =>
        \A B \in FieldNames(DevType) \ {last.kwargs[1].kw} :
            conf_reg(DevType)[B][1] = conf_reg(DevType)[last.kwargs[1].kw][1]
                => RawField(mem, B) = RawField(pre.mem, B)

\* C2: set_fields with a pair whose name is no field of the register map or
\* whose value is outside 0 <= value < 2^width fails before any bus
\* transaction, wherever the pair stands in the request, and leaves the device
\* registers, the handles and the cache unchanged
C2_InvalidRequestRejected ==
    (Returned("config") /\ \E i \in DOMAIN last.kwargs : BadPair(DevType, last.kwargs[i])) =>
        /\ last.err \in {"AssertionError", "TypeError"}
        /\ last.log = <<>>
        /\ mem = pre.mem
        /\ devs = pre.devs
        /\ cls_config = pre.cls_config

\* a request whose first pair is valid and whose second pair has a value
\* of 2^width or more was rejected
C2_Witness ==
    /\ Returned("config")
    /\ Len(last.kwargs) = 2
    /\ ~BadPair(DevType, last.kwargs[1])
    /\ last.kwargs[2].kw \in FieldNames(DevType)
    /\ last.kwargs[2].v >= 2 ^ conf_reg(DevType)[last.kwargs[2].kw][3]
    /\ last.err = "AssertionError"


\* C3: get_fields([name], force_read=false) fails, and issues no bus
\* transaction, when name (a field of the handle's device type) has been
\* neither read nor written through this handle since the handle was created
C3_UnreadFieldFails ==
    (/\ Returned("get_config") /\ ~last.rd /\ Len(last.names) = 1
     /\ last.names[1] \in FieldNames(DevType)
     /\ last.names[1] \notin pre.touched[last.h]) =>
        last.err # "none" /\ last.log = <<>>

\* the registers the last config call named, and the pairs it passed for
\* register r
TouchedRegs ==
    {conf_reg(DevType)[last.kwargs[i].kw][1] : i \in DOMAIN last.kwargs}
PairsIn(r) ==
    {p \in Range(last.kwargs) : conf_reg(DevType)[p.kw][1] = r}

\* bit i of register r belongs to a field the last config call named
Requested(r, i) ==
    \E p \in PairsIn(r) :
        /\ conf_reg(DevType)[p.kw][2] <= i
        /\ i < conf_reg(DevType)[p.kw][2] + conf_reg(DevType)[p.kw][3]

\* C4: a successful set_fields (of at least one field) that touches k distinct
\* register addresses issues exactly k reads and k writes and nothing else:
\* per register one read of the whole register immediately followed by one
\* write of it, the value written being the value read with exactly the
\* requested fields replaced by the requested values
C4_OneReadOneWritePerRegister ==
    (Succeeded("config") /\ Len(last.kwargs) >= 1) =>
        LET n == conf_reg(DevType)["nbytes"]
            k == Cardinality(TouchedRegs)
        IN  /\ Len(last.log) = 2 * k
            /\ {last.log[2 * j].ctrl : j \in 1..k} = TouchedRegs
            /\ \A j \in 1..k :
                  LET rd == last.log[2 * j - 1]
                      wr == last.log[2 * j]
                      was == Content(pre.mem, rd.ctrl)
                      new == bus_value(wr.data, Len(wr.data))
                  IN  /\ rd.op = "read_i2c_block_data" /\ rd.nbytes = n
                      /\ rd.addr = Dev.addr
                      /\ wr.op = "write_i2c_block_data" /\ wr.nbytes = n
                      /\ wr.addr = Dev.addr /\ wr.ctrl = rd.ctrl
                      /\ \A p \in PairsIn(rd.ctrl) :
                            Window(new, conf_reg(DevType)[p.kw][2],
                                   conf_reg(DevType)[p.kw][3]) = p.v
                      /\ \A i \in 0..(8 * n - 1) :
                            ~Requested(rd.ctrl, i) => Bit(new, i) = Bit(was, i)
                      /\ new < 256 ^ n

\* C5 as stated: after any successful set_fields the cache entry of every
\* written field is the value set and every other cache entry is unchanged
C5_CacheAfterSet ==
    Succeeded("config") =>
        /\ \A p \in Range(last.kwargs) : Entry(CacheNow(last.h), p.kw) = <<p.v>>
        /\ \A kw \in (DOMAIN CacheNow(last.h) \cup DOMAIN CacheBefore(last.h))
                        \ {p.kw : p \in Range(last.kwargs)} :
              Entry(CacheNow(last.h), kw) = Entry(CacheBefore(last.h), kw)

\* C5 amended: the same, for a set_fields that names at least one field
C5_CacheAfterSetOfFields ==
    (Succeeded("config") /\ Len(last.kwargs) >= 1) =>
        /\ \A p \in Range(last.kwargs) : Entry(CacheNow(last.h), p.kw) = <<p.v>>
        /\ \A kw \in (DOMAIN CacheNow(last.h) \cup DOMAIN CacheBefore(last.h))
                        \ {p.kw : p \in Range(last.kwargs)} :
              Entry(CacheNow(last.h), kw) = Entry(CacheBefore(last.h), kw)

\* one field was written while a field of the same register was unknown,
\* and that field is unknown still
C5_Witness ==
    /\ Succeeded("config")
    /\ Len(last.kwargs) = 1
    /\ \E B \in FieldNames(DevType) \ {last.kwargs[1].kw} :
          /\ conf_reg(DevType)[B][1] = conf_reg(DevType)[last.kwargs[1].kw][1]
          /\ Entry(CacheBefore(last.h), B) = None
          /\ Entry(CacheNow(last.h), B) = None
    /\ \E kw \in FieldNames(DevType) : Entry(CacheBefore(last.h), kw) # None


\* the bus log of the last call consists of one block read of each register
\* of R, of the device's register width, and of nothing else
ReadsOnceEach(R) ==
    /\ Len(last.log) = Cardinality(R)
    /\ {last.log[i].ctrl : i \in DOMAIN last.log} = R
    /\ \A i \in DOMAIN last.log :
          /\ last.log[i].op = "read_i2c_block_data"
          /\ last.log[i].addr = Dev.addr
          /\ last.log[i].nbytes = conf_reg(DevType)["nbytes"]

\* C6: get_fields with force_read=true and no names reads every distinct
\* register address of the register map exactly once, returns a value for
\* every field of the map and for nothing else, and sets the cache entry of
\* every field to the value read
C6_FullRead ==
    (Returned("get_config") /\ last.rd /\ Len(last.names) = 0) =>
        /\ last.err = "none"
        /\ ReadsOnceEach({conf_reg(DevType)[kw][1] : kw \in DOMAIN conf_reg(DevType) \ {"nbytes"}})
        /\ DOMAIN last.out = DOMAIN conf_reg(DevType) \ {"nbytes"}
        /\ \A kw \in DOMAIN last.out :
              /\ last.out[kw] = RawField(pre.mem, kw)
              /\ Entry(CacheNow(last.h), kw) = <<last.out[kw]>>
        /\ mem = pre.mem

\* a full forced read of a device whose fields live in two registers
C6_Witness ==
    /\ Succeeded("get_config") /\ last.rd /\ Len(last.names) = 0
    /\ Len(last.log) = 2
    /\ \E kw \in DOMAIN last.out : Entry(CacheBefore(last.h), kw) # <<last.out[kw]>>

\* C7: get_fields with force_read=true and a non-empty list of names reads
\* exactly the distinct register addresses of those names, once each, returns
\* exactly the requested fields, and changes the cache entries of the
\* requested fields only
C7_SelectiveRead ==
    (Succeeded("get_config") /\ last.rd /\ Len(last.names) >= 1) =>
        /\ ReadsOnceEach({conf_reg(DevType)[kw][1] : kw \in Range(last.names)})
        /\ DOMAIN last.out = Range(last.names)
        /\ \A kw \in Range(last.names) :
              Entry(CacheNow(last.h), kw) = <<last.out[kw]>>
        /\ \A kw \in (DOMAIN CacheNow(last.h) \cup DOMAIN CacheBefore(last.h))
                        \ Range(last.names) :
              Entry(CacheNow(last.h), kw) = Entry(CacheBefore(last.h), kw)
        /\ mem = pre.mem

\* two fields of one register were read with a single transaction while a
\* third field of the map stayed unknown
C7_Witness ==
    /\ Succeeded("get_config") /\ last.rd /\ Len(last.names) = 2
    /\ last.names[1] # last.names[2]
    /\ Len(last.log) = 1
    /\ \E kw \in FieldNames(DevType) \ Range(last.names) :
          Entry(CacheNow(last.h), kw) = None

\* the text of the small numbers a field can hold
str(n) ==
    CASE n = 0 -> "0" [] n = 1 -> "1" [] n = 2 -> "2" [] n = 3 -> "3"
      [] n = 4 -> "4" [] n = 5 -> "5" [] n = 6 -> "6" [] n = 7 -> "7"

\* field kw of type t has a value representation (a fifth tuple element)
HasTable(t, kw) == Len(conf_reg(t)[kw]) >= 5

\* C8 as stated: on the forced read path a field that has a decode table is
\* returned as decode_table[raw], a field without one as the raw value
C8_DecodeTableApplied ==
    (Succeeded("get_config") /\ last.rd) =>
        \A kw \in DOMAIN last.out :
            IF HasTable(DevType, kw)
            THEN str(last.out[kw]) = conf_reg(DevType)[kw][5][RawField(pre.mem, kw) + 1]
            ELSE last.out[kw] = RawField(pre.mem, kw)

\* C8 amended: on the forced read path every field is returned as its raw
\* extracted bit value, whether or not it has a decode table
C8_RawValueReturned ==
    (Succeeded("get_config") /\ last.rd) =>
        \A kw \in DOMAIN last.out : last.out[kw] = RawField(pre.mem, kw)

\* a forced read returned a field with a decode table whose entry for the
\* raw value differs from the raw value, and a field with no decode table
C8_Witness ==
    /\ Succeeded("get_config") /\ last.rd
    /\ \E kw \in DOMAIN last.out :
          /\ HasTable(DevType, kw)
          /\ conf_reg(DevType)[kw][5][RawField(pre.mem, kw) + 1] # str(RawField(pre.mem, kw))
          /\ last.out[kw] > 0
    /\ \E t \in Types : \E kw \in FieldNames(t) : ~HasTable(t, kw)

\* C9: every existing handle's address is a member of its type's
\* valid-address set (creating a device elsewhere fails and yields no handle)
C9_AddressValid ==
    \A h \in DOMAIN devs : devs[h].addr \in valid_addr(devs[h].dev_type)

\* C10: no construction, get_fields or set_fields performed on one handle
\* changes a cache entry of another handle
C10_CacheExclusivelyOwned ==
    (pc = "returned") =>
        \A b \in DOMAIN pre.devs \ {last.h} :
            \A kw \in FieldNames(devs[b].dev_type) :
                Entry(CacheNow(b), kw) = Entry(CacheBefore(b), kw)


\* C11: a cache entry never expires: a get_fields(force_read=false) of names
\* that were all read (forced) or written through this handle before
\* succeeds, whatever happened since, also on other handles, and returns for
\* each name the value of the most recent forced read or write through this
\* handle
C11_CacheEntryNeverExpires ==
    (/\ Returned("get_config") /\ ~last.rd /\ Len(last.names) >= 1
     /\ Range(last.names) \subseteq DOMAIN pre.known[last.h]) =>
        /\ last.err = "none"
        /\ \A kw \in Range(last.names) : last.out[kw] = pre.known[last.h][kw]

\* C12: the key set of every handle's config cache is a subset of the field
\* names of the handle's device type: neither 'nbytes' nor a field of
\* another type is a key
C12_CacheKeysAreFields ==
    \A h \in DOMAIN devs :
        DOMAIN CacheNow(h) \subseteq FieldNames(devs[h].dev_type)


\* C13: the bus handle and the address of a handle are write-once: after
\* construction every assignment to addr or bus fails with an error, and no
\* call changes the addr or the bus of an existing handle
C13_BusAndAddrWriteOnce ==
    /\ (Returned("set_addr") \/ Returned("set_bus")) => last.err = "AttributeError"
    /\ (pc = "returned") =>
          \A h \in DOMAIN pre.devs :
              /\ devs[h].addr = pre.devs[h].addr
              /\ devs[h].bus = pre.devs[h].bus

\* an assignment of another address to a handle whose address is 0x00, and
\* of another bus to a handle
C13_Witness ==
    \/ /\ Returned("set_addr") /\ pre.devs[last.h].addr = 0 /\ last.kwargs[1].v # 0
    \/ /\ Returned("set_bus") /\ last.kwargs[1].v # pre.devs[last.h].bus

\* C14: the register map of a device type is never mutated after
\* definition: whatever handles are constructed and whatever is called on
\* them, every data register of every type keeps its defined address and
\* width
C14_RegisterMapNeverMutated ==
    \A t \in DataTypes : cls_data_reg[t] = data_reg(t)

\* the data registers of the last call's device type when the call started
TableBefore == pre.cls_data_reg[DevType]

\* C15: get_raw and put_raw called without a register name succeed with one
\* transaction on the single data register when the type defines exactly one
\* data register, and fail without a bus transaction when it defines none
\* or more than one
C15_OmittedRegisterName ==
    ((Returned("get_raw") \/ Returned("put_raw")) /\ last.names = <<NoName>>) =>
        IF Cardinality(DOMAIN TableBefore) = 1
        THEN /\ last.err = "none"
             /\ Len(last.log) = 1
             /\ \A n \in DOMAIN TableBefore : last.log[1].ctrl = TableBefore[n][1]
        ELSE last.err # "none" /\ last.log = <<>>


\* the transactions of the bus log that belong to the call with this id
OfCall(id) == {i \in DOMAIN buslog : buslog[i].id = id}

WrongLength(i) == buslog[i].outcome \in {"short", "long"}

\* C16: whenever the transport returns a number of bytes different from the
\* requested count, the reading operation (forced get_fields, set_fields,
\* get_raw) fails: it ends with an error, returns no value, and issues no
\* write after that read
C16_WrongLengthReadFails ==
    \A c \in DOMAIN calls :
        (calls[c].stage = "done" /\ \E i \in OfCall(calls[c].id) : WrongLength(i)) =>
            /\ calls[c].err # "none"
            /\ calls[c].out = EmptyMap
            /\ \A i, j \in OfCall(calls[c].id) :
                  (WrongLength(i) /\ j > i) => buslog[j].op # "write_i2c_block_data"

\* C17: a transport call that fails with an I/O error ends the operation
\* with that error: the failed transaction is the last one the operation
\* issues (no retry, no later register read or written)
C17_TransportErrorEndsCall ==
    \A i \in DOMAIN buslog :
        buslog[i].outcome = "ioerror" =>
            /\ \A j \in OfCall(buslog[i].id) : j <= i
            /\ \A c \in DOMAIN calls :
                  calls[c].id = buslog[i].id =>
                      calls[c].stage = "done" /\ calls[c].err = "IOError"

\* a set_fields over two registers ended by an I/O error in its first
\* register, the second register still to do
C17_Witness ==
    \E c \in DOMAIN calls :
        /\ calls[c].stage = "done" /\ calls[c].err = "IOError"
        /\ calls[c].path = "rmw" /\ Len(calls[c].regs) = 2
        /\ \E i \in OfCall(calls[c].id) : buslog[i].outcome = "ioerror"

\* the call of c is a set_fields that returned successfully
SetDone(c) ==
    calls[c].stage = "done" /\ calls[c].err = "none" /\ calls[c].path = "rmw"

\* every field a successful set_fields of c set holds its value in the device
Reflected(c) ==
    \A p \in Range(calls[c].kwargs) :
        Window(mem[devs[calls[c].h].addr][reg_of(devs[calls[c].h].dev_type, p.kw)],
               start_of(devs[calls[c].h].dev_type, p.kw),
               nbits_of(devs[calls[c].h].dev_type, p.kw)) = p.v

\* the bits of field kw
Bits(t, kw) == start_of(t, kw)..(start_of(t, kw) + nbits_of(t, kw) - 1)

\* the calls of c1 and c2 set different fields, no two of them sharing a bit
DifferentFields(c1, c2) ==
    LET t == devs[calls[c1].h].dev_type
        names == {p.kw : p \in Range(calls[c1].kwargs) \cup Range(calls[c2].kwargs)}
    IN  /\ {p.kw : p \in Range(calls[c1].kwargs)} \cap
           {p.kw : p \in Range(calls[c2].kwargs)} = {}
        /\ \A k1, k2 \in names :
              (k1 # k2 /\ reg_of(t, k1) = reg_of(t, k2)) =>
                  Bits(t, k1) \cap Bits(t, k2) = {}

\* c2 read a register before c1 wrote it and wrote it back afterwards
Interleaved(c1, c2) ==
    \E i, j, k \in DOMAIN buslog :
        /\ i < j /\ j < k
        /\ buslog[i].id = calls[c2].id /\ buslog[i].op = "read_i2c_block_data"
        /\ buslog[j].id = calls[c1].id /\ buslog[j].op = "write_i2c_block_data"
        /\ buslog[k].id = calls[c2].id /\ buslog[k].op = "write_i2c_block_data"
        /\ buslog[i].ctrl = buslog[j].ctrl /\ buslog[j].ctrl = buslog[k].ctrl

\* C19: without a lock two callers running set_fields on different fields
\* can lose an update, and only by interleaving: when both have returned
\* successfully and a field one of them set is not in the register, the
\* other read the register before and wrote it back after the first's write
C19_UpdateLostOnlyByInterleaving ==
    \A c1, c2 \in DOMAIN calls :
        (/\ c1 # c2 /\ SetDone(c1) /\ SetDone(c2) /\ DifferentFields(c1, c2)
         /\ ~Reflected(c1)) => Interleaved(c1, c2)

\* two successfully completed set_fields on different fields of one
\* register, the update of one of them missing from the register
C19_Witness ==
    \E c1, c2 \in DOMAIN calls :
        /\ c1 # c2 /\ SetDone(c1) /\ SetDone(c2) /\ DifferentFields(c1, c2)
        /\ Len(calls[c1].kwargs) = 1 /\ Len(calls[c2].kwargs) = 1
        /\ reg_of(devs[1].dev_type, calls[c1].kwargs[1].kw)
              = reg_of(devs[1].dev_type, calls[c2].kwargs[1].kw)
        /\ ~Reflected(c1) /\ Reflected(c2)

\* the k-th rotation of the list c
RECURSIVE rotated(_, _)
rotated(c, k) == IF k = 0 THEN c ELSE rotated(rotate(c), k - 1)

\* C18: on a handle built with a non-empty cycle c, the n-th successful sample
\* selected c[(n-1) mod len(c)], and the handle's cycle is a rotation of c.
C18_CycleConsumedInOrder ==
    \A h \in DOMAIN devs :
        LET c0 == sampled[h].cycle0
            c == c0[1]
            picks == sampled[h].picks
        IN  (c0 # None /\ Len(c) > 0) =>
                /\ \A n \in DOMAIN picks : picks[n] = c[((n - 1) % Len(c)) + 1]
                /\ \E k \in 0..(Len(c) - 1) : devs[h].cycle = <<rotated(c, k)>>

\* the same statement for the handles none of whose samples has failed
C18_InOrderWithoutFailure ==
    \A h \in DOMAIN devs :
        LET c0 == sampled[h].cycle0
            c == c0[1]
            picks == sampled[h].picks
        IN  (c0 # None /\ Len(c) > 0 /\ sampled[h].failed = 0) =>
                \A n \in DOMAIN picks : picks[n] = c[((n - 1) % Len(c)) + 1]

\* three successful samples on a two-element cycle
C18_ThreeSamples ==
    \E h \in DOMAIN devs :
        /\ sampled[h].cycle0 = <<(<<1, 2>>)>>
        /\ sampled[h].picks = <<1, 2, 1>>

\* C20: for a window of 1 to 16 bits within 16 bits and a value that fits it,
\* bit_grab on the result of bit_set returns the value, and every bit outside
\* the window is the bit of the number bit_set was given.
C20_SetThenGrab ==
    (pc = "grabbed" /\ last.op = "bit_set") =>
        /\ last.grab = <<last.value>>
        /\ \A i \in 0..(MaxBits + 1) :
              i \notin last.start..(last.start + last.nbits - 1) =>
                  Bit(last.set[1], i) = Bit(last.num, i)
        /\ last.set[1] \div (2 ^ (MaxBits + 2)) = last.num \div (2 ^ (MaxBits + 2))

\* a window inside the number whose bits are overwritten by different ones,
\* with bits set on both sides of it
C20_Witness ==
    /\ pc = "grabbed" /\ last.op = "bit_set"
    /\ last.start > 0 /\ last.start + last.nbits < MaxBits
    /\ Window(last.num, last.start, last.nbits) \notin {0, last.value}
    /\ last.value # 0
    /\ Window(last.num, 0, last.start) # 0
    /\ last.num \div (2 ^ (last.start + last.nbits)) # 0
    /\ last.grab = <<last.value>>

\* C21: for every byte sequence b of length n, the empty one included,
\* bytes2int returns a number and int2bytes of that number with n is b.
C21_BytesRoundTrip ==
    (last.op = "bytes2int" /\ pc # "idle") =>
        /\ last.err = "none"
        /\ pc = "split" => last.bytes = <<last.b>>

\* the same statement for the sequences of at least one byte
C21_NonEmptyRoundTrip ==
    (last.op = "bytes2int" /\ pc # "idle" /\ Len(last.b) > 0) =>
        /\ last.err = "none"
        /\ pc = "split" => last.bytes = <<last.b>>

\* C22: bit_set returns no result for a value of 2^nbits or more, and no
\* result whose bits outside the window differ from those of the number given.
C22_SetBitsRangeChecked ==
    (last.op = "bit_set" /\ last.set # None) =>
        /\ last.value < 2 ^ last.nbits
        /\ \A i \in 0..(MaxBits + 2) :
              i \notin last.start..(last.start + last.nbits - 1) =>
                  Bit(last.set[1], i) = Bit(last.num, i)

\* C24: for n in 1..16 and num in 0..2^n-1, twoscompl2int(num, n) is num
\* below 2^(n-1) and num - 2^n from there on, hence within
\* -2^(n-1)..2^(n-1)-1; for n = 16 it maps 0x7FFF to 32767, 0x8000 to -32768
\* and 0xFFFF to -1.
C24_TwosComplementDecoded ==
    (last.op = "twoscompl2int" /\ pc = "decoded") =>
        LET n == last.n
            num == last.num
            out == last.out[1]
        IN  /\ out = IF num < 2 ^ (n - 1) THEN num ELSE num - (2 ^ n)
            /\ out >= -(2 ^ (n - 1)) /\ out <= (2 ^ (n - 1)) - 1
            /\ (n = 16 /\ num = 32767) => out = 32767
            /\ (n = 16 /\ num = 32768) => out = -32768
            /\ (n = 16 /\ num = 65535) => out = -1

\* the most negative 16-bit number decoded
C24_Witness ==
    /\ last.op = "twoscompl2int" /\ pc = "decoded"
    /\ last.n = 16 /\ last.num = 32768
    /\ last.out = <<-32768>>

\* C23: put_raw with a value of 2^(8*nbytes) or more, nbytes the declared
\* width of the data register named, fails and leaves the device untouched.
C23_OversizedValueRejected ==
    (Returned("put_raw") /\ last.names[1] \in DOMAIN TableBefore) =>
        LET nbytes == TableBefore[last.names[1]][2]
        IN  last.kwargs[1].v >= 256 ^ nbytes =>
                /\ last.err # "none"
                /\ last.log = <<>>
                /\ mem = pre.mem

\* the call of c is a config call with keyword arguments, between its first
\* transaction and its end
Setting(c) ==
    /\ calls[c].op = "config" /\ calls[c].path = "rmw"
    /\ calls[c].stage \in {"read", "write"}

\* C30: no step of a config call changes a cache entry of the handle, except
\* the step in which the call returns normally; a call that a transport error
\* ends leaves the cache as it found it, whatever it wrote before.
C30_FailedSetLeavesCache ==
    [][\A c \in DOMAIN calls :
          (Setting(c) /\ ~(calls'[c].stage = "done" /\ calls'[c].err = "none")) =>
              self_config(devs'[calls[c].h], cls_config')
                  = self_config(devs[calls[c].h], cls_config)]_vars

\* a config call on two registers that wrote the first and failed on the
\* second, the cache still without a value for the field it wrote
C30_Witness ==
    \E c \in DOMAIN calls :
        /\ calls[c].op = "config" /\ calls[c].path = "rmw"
        /\ calls[c].stage = "done" /\ calls[c].err = "IOError"
        /\ \E i \in OfCall(calls[c].id) :
              /\ buslog[i].op = "write_i2c_block_data"
              /\ buslog[i].outcome = "ok"
        /\ \A i \in DOMAIN calls[c].kwargs :
              Entry(CacheNow(calls[c].h), calls[c].kwargs[i].kw) = None

\* some byte the call passes, ctrl or data, is outside 0..255
BadByte ==
    \/ last.ctrl # None /\ last.ctrl[1] \notin 0..255
    \/ \E i \in DOMAIN last.data.v : last.data.v[i] \notin 0..255

\* C25: write issues exactly one transaction, chosen by its arguments: the
\* byte 0 without ctrl and data, the data byte without ctrl, ctrl as a byte
\* without data, one block write of ctrl and the data with both; with ctrl or
\* a data byte outside 0..255 it fails and issues no transaction.
C25_WriteOneTransaction ==
    Returned("write") =>
        LET ctrl == last.ctrl
            data == last.data
            addr == devs[last.h].addr
        IN  IF BadByte
            THEN last.err # "none" /\ last.log = <<>> /\ mem = pre.mem
            ELSE /\ Len(last.log) <= 1
                 /\ (ctrl = None /\ data.kind = "none") =>
                       last.log = <<ByteEntry("write_byte", addr, <<0>>)>>
                 /\ (ctrl = None /\ data.kind = "int") =>
                       last.log = <<ByteEntry("write_byte", addr, data.v)>>
                 /\ (ctrl # None /\ data.kind = "none") =>
                       last.log = <<ByteEntry("write_byte", addr, ctrl)>>
                 /\ (ctrl # None /\ data.kind # "none" /\ Len(data.v) > 0) =>
                       last.log = <<WriteEntry(addr, ctrl[1], data.v)>>

\* a block write of a register pointer and two data bytes
C25_Witness ==
    /\ Succeeded("write")
    /\ last.ctrl = <<7>> /\ last.data = ListData(<<7, 255>>)
    /\ last.log = <<WriteEntry(devs[last.h].addr, 7, <<7, 255>>)>>
    /\ mem[devs[last.h].addr][7] = 7 * 256 + 255

\* the switch a call of enable or disable was made on, and its control byte
\* before and after the call
SwitchByteBefore(h) == pre.mem[devs[h].addr][ByteReg]
SwitchByteNow(h) == mem[devs[h].addr][ByteReg]

\* C26: set_focus of a device in a group leaves the switch with the device's
\* own channel enabled, every other channel of the group disabled and every
\* channel outside the group as it was; without a group it issues no
\* transaction.
C26_FocusOnOwnChannel ==
    Returned("set_focus") =>
        IF Dev.group = None
        THEN last.err = "none" /\ last.log = <<>> /\ mem = pre.mem
        ELSE LET g == Dev.group[1]
                 n == channel_count(devs[g.switch].dev_type)
             IN  /\ last.err = "none"
                 /\ \A ch \in 0..(n - 1) :
                       Bit(SwitchByteNow(g.switch), ch) =
                          IF ch = g.me THEN 1
                          ELSE IF ch \in Range(g.channels) THEN 0
                          ELSE Bit(SwitchByteBefore(g.switch), ch)

\* a focus that disabled another channel of the group and kept an enabled
\* channel outside the group
C26_Witness ==
    /\ Succeeded("set_focus") /\ Dev.group # None
    /\ LET g == Dev.group[1]
       IN  /\ \E ch \in Range(g.channels) \ {g.me} :
                 /\ Bit(SwitchByteBefore(g.switch), ch) = 1
                 /\ Bit(SwitchByteNow(g.switch), ch) = 0
           /\ Bit(SwitchByteBefore(g.switch), g.me) = 0
           /\ Bit(SwitchByteNow(g.switch), g.me) = 1
           /\ Bit(SwitchByteBefore(g.switch), 3) = 1
           /\ Bit(SwitchByteNow(g.switch), 3) = 1

\* C28: enable and disable of a switch leave the channels listed at 1 and 0
\* and every other channel as it was; with a channel outside the switch they
\* fail before any transaction.
C28_SwitchReadModifyWrite ==
    (Returned("enable") \/ Returned("disable")) =>
        LET n == channel_count(Dev.dev_type)
            x == IF last.op = "enable" THEN 1 ELSE 0
        IN  IF \E i \in DOMAIN last.channels : last.channels[i] \notin 0..(n - 1)
            THEN last.err # "none" /\ last.log = <<>> /\ mem = pre.mem
            ELSE IF last.err # "none" THEN mem = pre.mem
            ELSE /\ Len(last.log) = 2
                 /\ last.log[1].op = "read_byte" /\ last.log[2].op = "write_byte"
                 /\ \A ch \in 0..(n - 1) :
                       Bit(SwitchByteNow(last.h), ch) =
                          IF ch \in Range(last.channels) THEN x
                          ELSE Bit(SwitchByteBefore(last.h), ch)

\* a disable that cleared an enabled channel and kept another enabled one
C28_Witness ==
    /\ Succeeded("disable")
    /\ \E ch \in Range(last.channels) : Bit(SwitchByteBefore(last.h), ch) = 1
    /\ \E ch \in 0..(channel_count(Dev.dev_type) - 1) :
          /\ ch \notin Range(last.channels)
          /\ Bit(SwitchByteBefore(last.h), ch) = 1
          /\ Bit(SwitchByteNow(last.h), ch) = 1

\* C27: get of an ADS1115 or HIH8121 that is in no group, the transport
\* working, returns the measurement and issues no transaction to a switch.
C27_SampleWithoutGroup ==
    (Returned("get") /\ DevType \in {"ADS1115", "HIH8121"}
        /\ pre.devs[last.h].group = None /\ last.fault = "none") =>
            /\ last.err = "none"
            /\ last.log = <<>>

\* C29: a get that a transport error ends leaves the cycle of the handle as
\* it was when the call started.
C29_FailedSampleKeepsCycle ==
    (Returned("get") /\ pre.devs[last.h].cycle # None /\ last.err = "IOError") =>
        devs[last.h].cycle = pre.devs[last.h].cycle

=============================================================================
